---- MODULE Spec2Model ----
(***************************************************************************)
(* State-machine model of the caching core of BaseSecu-VulnScanner:         *)
(*   - the vulnerability store   (src/src/caching/cache_db.py)              *)
(*   - the CPE translation cache (src/pkg_finder.py, machine_processor.py)  *)
(*   - the inventory delta detector (src/pkg_finder.py, machine_processor.py,*)
(*     src/src/core/main.py)                                                *)
(*   - the quota governor        (src/src/matching/cpe_matcher.py)          *)
(* Each subsystem has its own specification; the variables of the other    *)
(* subsystems keep their initial value:                                     *)
(*   SpecVuln  get_vulnerabilities, statement by statement                  *)
(*   SpecCpe   the cache operations of pkg_finder.py called in any order    *)
(*   SpecGen   the cache as a scan drives it, with CPE generation           *)
(*   SpecDelta the scan of a machine: delta, snapshot update, processing    *)
(*   SpecQuota ask_for_cpe under the rate limiter, with a clock             *)
(*   SpecRace  two callers of ask_for_cpe and the plan probe                *)
(*   SpecIssue the generate_content calls issued, failed ones included      *)
(*   SpecFleet repeated scans of a machine with its hardware                *)
(*   SpecMain  one run of main over two machines                            *)
(*   SpecVulnRace two connections looking up the same uncached CPE          *)
(*   SpecSync  sync_modified_cves over a filled store                       *)
(***************************************************************************)
EXTENDS Integers, Sequences, FiniteSets, TLC

VARIABLES
    cpe_index,        \* committed rows of table cpe_index (rowid order)
    vulnerabilities,  \* committed rows of table vulnerabilities (rowid order)
    conn,             \* per caller: the running get_vulnerabilities call
    nvd_answer,       \* per CPE: the list the last nvdlib.searchCVE returned
    prev_call,        \* the completed get_vulnerabilities call before last_call
    last_call,        \* the last completed get_vulnerabilities call
    last_sync,        \* the last sync_modified_cves call: its outcome and updates
    cpe_cache,        \* the file cpe_cache.json
    last_op,          \* the last CPE-cache operation: name, argument, result
    installed_packages_json, \* per machine: the file installed_packages.json
    scan,             \* the scan of one machine by the loop of main
    rate_limiter,     \* the APIRateLimiter object of cpe_matcher
    now,              \* time.time(), in seconds
    ask,              \* per caller: the running ask_for_cpe call, its last verdict
    recorded,         \* timestamps of all record_call calls so far
    failed_calls,     \* timestamps of the generate_content calls that raised
    api_plan_checked_globally, \* the flag _api_plan_checked_globally
    probes            \* number of check_gemini_plan calls so far

vulnVars == <<cpe_index, vulnerabilities, conn, nvd_answer, prev_call, last_call,
              last_sync>>
cpeVars == <<cpe_cache, last_op>>
deltaVars == <<installed_packages_json, scan>>
quotaVars == <<rate_limiter, now, ask, recorded, failed_calls,
               api_plan_checked_globally, probes>>
vars == <<cpe_index, vulnerabilities, conn, nvd_answer, prev_call, last_call,
          last_sync,
          cpe_cache, last_op, installed_packages_json, scan,
          rate_limiter, now, ask, recorded, failed_calls,
          api_plan_checked_globally, probes>>

(***************************************************************************)
(* Bounds of the model                                                      *)
(***************************************************************************)
\* longest package list the collector returns for a machine
MaxSnapshot == 3
\* most calls recorded on a paid plan (the code puts no limit on them)
MaxPaidCalls == 6
\* most generate_content calls that raise (the code puts no limit on them)
MaxFailedCalls == 2
\* longest list nvdlib.searchCVE answers with
MaxCves == 2
\* longest CPE list handed to cache_cpes for one package
MaxList == 2
\* most lines in one answer of the mapping service
MaxLines == 2

(***************************************************************************)
(* Helpers on sequences                                                     *)
(***************************************************************************)
Range(s) == {s[i] : i \in 1..Len(s)}

SeqsUpTo(S, n) == UNION {[1..k -> S] : k \in 0..n}

\* sequences without repetition
DistinctSeqsUpTo(S, n) ==
    {s \in SeqsUpTo(S, n) : \A i, j \in 1..Len(s) : i # j => s[i] # s[j]}

\* all orderings of the elements (with multiplicity) of s
Orderings(s) ==
    LET n == Len(s)
        bij == {f \in [1..n -> 1..n] : \A i, j \in 1..n : i # j => f[i] # f[j]}
    IN  {[i \in 1..n |-> s[f[i]]] : f \in bij}

(***************************************************************************)
(* The vulnerability store: cache_db.py                                     *)
(***************************************************************************)
\* the CPE strings get_vulnerabilities is called with
CPES == {"cpe:2.3:a:curl:curl:7.85.0:*:*:*:*:*:*:*",
         "cpe:2.3:a:openssl:openssl:3.0.0:*:*:*:*:*:*:*"}

\* Python None / SQL NULL in column published_date. Published dates are ISO
\* strings compared by SQLite as TEXT; the model numbers them 1, 2, ... in
\* chronological order, and NULL sorts below every value as in SQLite.
NoneDate == 0

\* the callers of get_vulnerabilities; the scan loop of main is the single one
Callers == {1}

\* cache_db.py:107,168: every call opens a connection of its own with
\* sqlite3.connect; two calls can run at once (two scanner processes)
Connections == {1, 2}

\* CVE objects of nvdlib: id, descriptions (a list), published (NoneDate when
\* the object has no attribute "published")
NvdCatalog ==
    { [id |-> "CVE-2021-0001", descriptions |-> <<"heap overflow">>, published |-> 1],
      [id |-> "CVE-2022-0002", descriptions |-> <<>>,                published |-> 2],
      [id |-> "CVE-2023-0003", descriptions |-> <<"use after free">>, published |-> NoneDate] }

\* what nvdlib.searchCVE(cpeName=...) can answer when it does not raise
SearchResults == DistinctSeqsUpTo(NvdCatalog, MaxCves)

\* The record kept of a completed call: its argument, whether cpe_index held
\* a row for it when the call started, the branch taken, the number of external
\* queries issued, how it ended ("returned", "query_raised", "aborted"), the
\* list returned and the number of rows inserted by the call's transaction.
NoCall == [cpe |-> "", indexed |-> FALSE, hit |-> FALSE, queries |-> 0,
           outcome |-> "none", result |-> <<>>, inserted |-> 0]

IdleConn == [pc |-> "idle", cpe |-> "", indexed |-> FALSE, queries |-> 0,
             cve_list |-> <<>>, k |-> 0,
             txn_index |-> <<>>, txn_rows |-> <<>>, extracted_data |-> <<>>]

\* rows of a table with the given cpe_string, in rowid order
RowsOf(table, c) == SelectSeq(table, LAMBDA r : r.cpe_string = c)

\* cache_db.py:208-213: the tuple (cve.id, desc, published_date) of one CVE
Extract(cve) ==
    [cve_id |-> cve.id,
     description |-> IF cve.descriptions # <<>> THEN cve.descriptions[1]
                     ELSE "No description",
     published_date |-> cve.published]

\* cache_db.py:211-212: the row inserted for one CVE
VulnRow(c, cve) ==
    [cpe_string |-> c, cve_id |-> Extract(cve).cve_id,
     description |-> Extract(cve).description,
     published_date |-> Extract(cve).published_date]

\* the projection cve_id, description, published_date of a row
Project(r) == [cve_id |-> r.cve_id, description |-> r.description,
               published_date |-> r.published_date]

IsSortedDesc(s) ==
    \A i \in 1..(Len(s) - 1) : s[i].published_date >= s[i + 1].published_date

\* mutant: the SELECT of the hit path without its WHERE clause
SelectVulnerabilitiesNoWhere(table, c) ==
    LET proj == [i \in 1..Len(table) |-> Project(table[i])]
    IN  {s \in Orderings(proj) : IsSortedDesc(s)}

\* cache_db.py:180-181: SELECT ... WHERE cpe_string = ? ORDER BY published_date
\* DESC. SQL fixes no order among rows with equal keys: every sorted ordering
\* is a possible answer.
SelectVulnerabilities(table, c) ==
    LET rows == RowsOf(table, c)
        proj == [i \in 1..Len(rows) |-> Project(rows[i])]
    IN  {s \in Orderings(proj) : IsSortedDesc(s)}

\* cache_db.py:173-174: SELECT last_fetched FROM cpe_index WHERE cpe_string = ?
IndexRowFound(c) == \E i \in 1..Len(cpe_index) : cpe_index[i].cpe_string = c

Completed(rec) ==
    /\ prev_call' = last_call
    /\ last_call' = rec

\* cache_db.py:168-194: get_db, the index SELECT and, on a hit, the SELECT of
\* the stored rows and the return
SelectHit(p, c) ==
    /\ conn[p].pc = "idle"
    /\ IndexRowFound(c)
    /\ \E results \in SelectVulnerabilities(vulnerabilities, c) :
          Completed([cpe |-> c, indexed |-> IndexRowFound(c), hit |-> TRUE,
                     queries |-> 0, outcome |-> "returned",
                     result |-> results, inserted |-> 0])
    /\ UNCHANGED <<cpe_index, vulnerabilities, conn, nvd_answer>>
    /\ UNCHANGED <<last_sync, cpeVars, deltaVars, quotaVars>>

\* cache_db.py:168-176,196-197: the index SELECT finds no row
SelectMiss(p, c) ==
    /\ conn[p].pc = "idle"
    /\ ~IndexRowFound(c)
    /\ conn' = [conn EXCEPT ![p] = [IdleConn EXCEPT !.pc = "query", !.cpe = c,
                                           !.indexed = IndexRowFound(c)]]
    /\ UNCHANGED <<cpe_index, vulnerabilities, nvd_answer, prev_call, last_call>>
    /\ UNCHANGED <<last_sync, cpeVars, deltaVars, quotaVars>>

\* cache_db.py:200: nvdlib.searchCVE returns a list
QueryNvd(p) ==
    /\ conn[p].pc = "query"
    /\ \E L \in SearchResults :
          /\ conn' = [conn EXCEPT ![p].pc = "insert_index", ![p].cve_list = L,
                                  ![p].queries = @ + 1]
          /\ nvd_answer' = [nvd_answer EXCEPT ![conn[p].cpe] = L]
    /\ UNCHANGED <<cpe_index, vulnerabilities, prev_call, last_call>>
    /\ UNCHANGED <<last_sync, cpeVars, deltaVars, quotaVars>>

\* mutant: the index row is written and committed before the query is issued
QueryNvdRaisesIndexed(p) ==
    /\ conn[p].pc = "query"
    /\ cpe_index' = Append(cpe_index, [cpe_string |-> conn[p].cpe])
    /\ conn' = [conn EXCEPT ![p] = IdleConn]
    /\ Completed([cpe |-> conn[p].cpe, indexed |-> conn[p].indexed,
                  hit |-> FALSE, queries |-> conn[p].queries + 1,
                  outcome |-> "query_raised", result |-> <<>>, inserted |-> 0])
    /\ UNCHANGED <<vulnerabilities, nvd_answer>>
    /\ UNCHANGED <<last_sync, cpeVars, deltaVars, quotaVars>>

\* cache_db.py:200,217-219: nvdlib.searchCVE raises (404, 429, 503, network);
\* the finally clause closes the connection and the exception propagates
QueryNvdRaises(p) ==
    /\ conn[p].pc = "query"
    /\ conn' = [conn EXCEPT ![p] = IdleConn]
    /\ Completed([cpe |-> conn[p].cpe, indexed |-> conn[p].indexed,
                  hit |-> FALSE, queries |-> conn[p].queries + 1,
                  outcome |-> "query_raised", result |-> <<>>, inserted |-> 0])
    /\ UNCHANGED <<cpe_index, vulnerabilities, nvd_answer>>
    /\ UNCHANGED <<last_sync, cpeVars, deltaVars, quotaVars>>

\* mutant: the connection runs in autocommit mode, the index row is durable
\* as soon as it is inserted
InsertIndexAutocommit(p) ==
    /\ conn[p].pc = "insert_index"
    /\ cpe_index' = Append(cpe_index, [cpe_string |-> conn[p].cpe])
    /\ conn' = [conn EXCEPT ![p].pc = "insert_rows", ![p].k = 1]
    /\ UNCHANGED <<vulnerabilities, nvd_answer, prev_call, last_call>>
    /\ UNCHANGED <<last_sync, cpeVars, deltaVars, quotaVars>>

\* another connection has written in a transaction it has not ended yet: it
\* holds the write lock of the database file
WriteLocked(p) == \E q \in Connections \ {p} : conn[q].txn_index # <<>>

\* mutant: cpe_index has no primary key and the database no write lock
InsertIndexUnconstrained(p) ==
    /\ conn[p].pc = "insert_index"
    /\ conn' = [conn EXCEPT ![p].pc = "insert_rows", ![p].k = 1,
                            ![p].txn_index = <<[cpe_string |-> conn[p].cpe]>>]
    /\ UNCHANGED <<cpe_index, vulnerabilities, nvd_answer, prev_call, last_call>>
    /\ UNCHANGED <<last_sync, cpeVars, deltaVars, quotaVars>>

\* cache_db.py:110-111,203-206: INSERT INTO cpe_index inside the implicit
\* transaction. The statement takes the write lock (it waits while another
\* connection holds it) and cpe_string is the PRIMARY KEY: with a committed
\* row for the CPE the statement raises instead (see Abort)
InsertIndex(p) ==
    /\ conn[p].pc = "insert_index"
    /\ ~WriteLocked(p)
    /\ ~IndexRowFound(conn[p].cpe)
    /\ conn' = [conn EXCEPT ![p].pc = "insert_rows", ![p].k = 1,
                            ![p].txn_index = <<[cpe_string |-> conn[p].cpe]>>]
    /\ UNCHANGED <<cpe_index, vulnerabilities, nvd_answer, prev_call, last_call>>
    /\ UNCHANGED <<last_sync, cpeVars, deltaVars, quotaVars>>

\* mutant: a CVE without descriptions is skipped instead of stored with the
\* text "No description"
InsertRowSkipsUndescribed(p) ==
    /\ conn[p].pc = "insert_rows"
    /\ conn[p].k <= Len(conn[p].cve_list)
    /\ LET cve == conn[p].cve_list[conn[p].k]
       IN  IF cve.descriptions = <<>>
           THEN conn' = [conn EXCEPT ![p].k = @ + 1]
           ELSE conn' = [conn EXCEPT
                           ![p].txn_rows = Append(@, VulnRow(conn[p].cpe, cve)),
                           ![p].extracted_data = Append(@, Extract(cve)),
                           ![p].k = @ + 1]
    /\ UNCHANGED <<cpe_index, vulnerabilities, nvd_answer, prev_call, last_call>>
    /\ UNCHANGED <<last_sync, cpeVars, deltaVars, quotaVars>>

\* cache_db.py:207-213: one turn of the loop over cve_list
InsertRow(p) ==
    /\ conn[p].pc = "insert_rows"
    /\ conn[p].k <= Len(conn[p].cve_list)
    /\ LET cve == conn[p].cve_list[conn[p].k]
       IN  conn' = [conn EXCEPT
                      ![p].txn_rows = Append(@, VulnRow(conn[p].cpe, cve)),
                      ![p].extracted_data = Append(@, Extract(cve)),
                      ![p].k = @ + 1]
    /\ UNCHANGED <<cpe_index, vulnerabilities, nvd_answer, prev_call, last_call>>
    /\ UNCHANGED <<last_sync, cpeVars, deltaVars, quotaVars>>

\* cache_db.py:215-219: db.commit(), return extracted_data, close
Commit(p) ==
    /\ conn[p].pc = "insert_rows"
    /\ conn[p].k > Len(conn[p].cve_list)
    /\ cpe_index' = cpe_index \o conn[p].txn_index
    /\ vulnerabilities' = vulnerabilities \o conn[p].txn_rows
    /\ conn' = [conn EXCEPT ![p] = IdleConn]
    /\ Completed([cpe |-> conn[p].cpe, indexed |-> conn[p].indexed,
                  hit |-> FALSE, queries |-> conn[p].queries,
                  outcome |-> "returned", result |-> conn[p].extracted_data,
                  inserted |-> Len(conn[p].txn_rows)])
    /\ UNCHANGED nvd_answer
    /\ UNCHANGED <<last_sync, cpeVars, deltaVars, quotaVars>>

\* cache_db.py:203-219: a statement of the miss path raises (the INSERT into
\* cpe_index with "database is locked" after the busy timeout or with a
\* violated primary key, among others), or the process dies, after the query:
\* db.close() without commit (or SQLite's journal on the next open) discards
\* the open transaction
Abort(p) ==
    /\ conn[p].pc \in {"insert_index", "insert_rows"}
    /\ conn' = [conn EXCEPT ![p] = IdleConn]
    /\ Completed([cpe |-> conn[p].cpe, indexed |-> conn[p].indexed,
                  hit |-> FALSE, queries |-> conn[p].queries,
                  outcome |-> "aborted", result |-> <<>>,
                  inserted |-> Len(conn[p].txn_rows)])
    /\ UNCHANGED <<cpe_index, vulnerabilities, nvd_answer>>
    /\ UNCHANGED <<last_sync, cpeVars, deltaVars, quotaVars>>

\* most CVEs in one answer of the modified-CVE query
MaxUpdates == 2

\* CVE objects nvdlib.searchCVE(lastModStartDate=...) can report as modified
\* in the trailing 24 hours: two that get_vulnerabilities may have stored,
\* one of them without descriptions, and one it never stores
ModifiedCatalog ==
    { [id |-> "CVE-2021-0001", descriptions |-> <<"heap overflow (revised)">>],
      [id |-> "CVE-2022-0002", descriptions |-> <<>>],
      [id |-> "CVE-2024-0004", descriptions |-> <<"unrelated">>] }

ModifiedResults == DistinctSeqsUpTo(ModifiedCatalog, MaxUpdates)

NoSync == [outcome |-> "none", updates |-> <<>>]

\* mutant: the UPDATE without its WHERE clause
UpdateDescriptionNoWhere(table, cve) ==
    [i \in 1..Len(table) |-> [table[i] EXCEPT !.description = cve.descriptions[1]]]

\* cache_db.py:70-71: UPDATE vulnerabilities SET description = ? WHERE cve_id = ?
UpdateDescription(table, cve) ==
    [i \in 1..Len(table) |->
        IF table[i].cve_id = cve.id
        THEN [table[i] EXCEPT !.description = cve.descriptions[1]]
        ELSE table[i]]

\* cache_db.py:67-71: the loop over updates inside the implicit transaction;
\* cve.descriptions[0] raises IndexError on a CVE without descriptions
RECURSIVE UpdateAll(_, _)
UpdateAll(table, updates) ==
    IF updates = <<>> THEN [raised |-> FALSE, table |-> table]
    ELSE IF Head(updates).descriptions = <<>>
         THEN [raised |-> TRUE, table |-> table]
         ELSE UpdateAll(UpdateDescription(table, Head(updates)), Tail(updates))

\* cache_db.py:59-76: sync_modified_cves; the query returned updates. The
\* updates are committed together after the loop; an exception inside the
\* loop leaves through the finally clause, and close() discards them
SyncModifiedCves(updates) ==
    /\ \A p \in Connections : conn[p].pc = "idle"
    /\ LET r == UpdateAll(vulnerabilities, updates)
       IN  /\ vulnerabilities' = IF r.raised THEN vulnerabilities ELSE r.table
           /\ last_sync' = [outcome |-> IF r.raised THEN "update_raised"
                                        ELSE "synced",
                            updates |-> updates]
    /\ UNCHANGED <<cpe_index, conn, nvd_answer, prev_call, last_call>>
    /\ UNCHANGED <<cpeVars, deltaVars, quotaVars>>

\* cache_db.py:65,74-76: the query for modified CVEs raises; the connection
\* is closed and the exception propagates
SyncModifiedCvesQueryRaises ==
    /\ \A p \in Connections : conn[p].pc = "idle"
    /\ last_sync' = [outcome |-> "query_raised", updates |-> <<>>]
    /\ UNCHANGED <<cpe_index, vulnerabilities, conn, nvd_answer, prev_call,
                   last_call>>
    /\ UNCHANGED <<cpeVars, deltaVars, quotaVars>>

(***************************************************************************)(* The CPE translation cache: pkg_finder.py, machine_processor.py           *)
(***************************************************************************)
\* component (package) names
Components == {"curl", "openssl"}

CurlCpe == "cpe:2.3:a:curl:curl:7.85.0:*:*:*:*:*:*:*"
OpensslCpe == "cpe:2.3:a:openssl:openssl:3.0.0:*:*:*:*:*:*:*"

\* a Python dict with keys among the component names
EmptyDict == [k \in {} |-> <<>>]
Dicts(V) == UNION {[K -> V] : K \in SUBSET Components}
DictGet(d, k, default) == IF k \in DOMAIN d THEN d[k] ELSE default

\* an element of a package's list in cpe_cache.json: an object {"cpe", "valid"},
\* an object without the key "valid", or (old format) a bare CPE string
DictEntry(cpe, valid) == [kind |-> "dict", cpe |-> cpe, valid |-> valid]
StrEntry(cpe) == [kind |-> "str", cpe |-> cpe, valid |-> "absent"]

\* the file cpe_cache.json: absent, unreadable as JSON, or a JSON object
MissingFile == [state |-> "missing", data |-> EmptyDict]
CorruptFile == [state |-> "corrupt", data |-> EmptyDict]
OkFile(data) == [state |-> "ok", data |-> data]

\* asked: generate_cpes_for_packages called ask_for_cpe; answer: what the
\* mapping service did with that call
NoOp == [op |-> "none", pkg |-> "", cpe |-> "", dict |-> EmptyDict,
         packages |-> <<>>, ret |-> <<>>, ret_dict |-> EmptyDict,
         asked |-> FALSE, answer |-> [ok |-> FALSE, lines |-> <<>>]]

\* mutant: the validity flag is not consulted
ValidCpesIgnoresFlag(cpe_entries) ==
    [i \in 1..Len(cpe_entries) |-> cpe_entries[i].cpe]

\* mutant: only objects carrying valid = true are served
ValidCpesRequiresFlag(cpe_entries) ==
    LET kept == SelectSeq(cpe_entries,
                          LAMBDA e : e.kind = "dict" /\ e.valid = "true")
    IN  [i \in 1..Len(kept) |-> kept[i].cpe]

\* pkg_finder.py:335-343: the loop collecting the valid CPEs of one package
RECURSIVE ValidCpes(_)
ValidCpes(cpe_entries) ==
    IF cpe_entries = <<>> THEN <<>>
    ELSE LET entry == Head(cpe_entries)
             rest == ValidCpes(Tail(cpe_entries))
         IN  IF entry.kind = "dict"
             THEN IF entry.valid # "false" THEN <<entry.cpe>> \o rest ELSE rest
             ELSE <<entry.cpe>> \o rest

\* pkg_finder.py:323-350: get_cached_cpes
GetCachedCpes(file, package_name) ==
    IF file.state = "missing" THEN <<>>
    ELSE IF file.state = "corrupt" THEN <<>>
    ELSE ValidCpes(DictGet(file.data, package_name, <<>>))

\* pkg_finder.py:407: the list stored for one package
WrapValid(cpe_list) ==
    [i \in 1..Len(cpe_list) |-> DictEntry(cpe_list[i], "true")]

\* mutant: the new CPEs are appended to the package's existing entries
CacheCpesAppends(file, packages_cpes_dict) ==
    LET cache_data == IF file.state = "ok" THEN file.data ELSE EmptyDict
    IN  OkFile([k \in DOMAIN cache_data \cup DOMAIN packages_cpes_dict |->
                  IF k \in DOMAIN packages_cpes_dict
                  THEN DictGet(cache_data, k, <<>>) \o WrapValid(packages_cpes_dict[k])
                  ELSE cache_data[k]])

\* mutant: the new CPEs are put in front of the package's existing entries
CacheCpesPrepends(file, packages_cpes_dict) ==
    LET cache_data == IF file.state = "ok" THEN file.data ELSE EmptyDict
    IN  OkFile([k \in DOMAIN cache_data \cup DOMAIN packages_cpes_dict |->
                  IF k \in DOMAIN packages_cpes_dict
                  THEN WrapValid(packages_cpes_dict[k]) \o DictGet(cache_data, k, <<>>)
                  ELSE cache_data[k]])

\* pkg_finder.py:391-416: cache_cpes, the file it leaves
CacheCpes(file, packages_cpes_dict) ==
    LET cache_data == IF file.state = "ok" THEN file.data ELSE EmptyDict
    IN  OkFile([k \in DOMAIN cache_data \cup DOMAIN packages_cpes_dict |->
                  IF k \in DOMAIN packages_cpes_dict
                  THEN WrapValid(packages_cpes_dict[k])
                  ELSE cache_data[k]])

\* mutant: every object entry is flagged, whatever its CPE
MarkEntryAnyCpe(cpe_entry, cpe_string) ==
    IF cpe_entry.kind = "dict"
    THEN [cpe_entry EXCEPT !.valid = "false"]
    ELSE cpe_entry

\* pkg_finder.py:467-469: one entry seen by the invalidation loop
MarkEntry(cpe_entry, cpe_string) ==
    IF cpe_entry.kind = "dict" /\ cpe_entry.cpe = cpe_string
    THEN [cpe_entry EXCEPT !.valid = "false"]
    ELSE cpe_entry

\* mutant: the entries of the invalid CPE are dropped from the file
MarkCpeInvalidDeletes(file, cpe_string) ==
    IF file.state = "corrupt" THEN file
    ELSE LET cache_data == IF file.state = "ok" THEN file.data ELSE EmptyDict
         IN  OkFile([k \in DOMAIN cache_data |->
                       SelectSeq(cache_data[k],
                                 LAMBDA e : ~(e.kind = "dict" /\ e.cpe = cpe_string))])

\* pkg_finder.py:453-477: mark_cpe_invalid, the file it leaves
MarkCpeInvalid(file, cpe_string) ==
    IF file.state = "corrupt" THEN file
    ELSE LET cache_data == IF file.state = "ok" THEN file.data ELSE EmptyDict
         IN  OkFile([k \in DOMAIN cache_data |->
                       [i \in 1..Len(cache_data[k]) |->
                           MarkEntry(cache_data[k][i], cpe_string)]])

\* mutant: a package counts as cached as soon as the file holds an entry for it
GetPackagesNeedingNoEntry(file, packages) ==
    SelectSeq(packages,
              LAMBDA p : ~(file.state = "ok" /\ p \in DOMAIN file.data
                             /\ file.data[p] # <<>>))

\* pkg_finder.py:515-526: get_packages_needing_cpe_generation
RECURSIVE GetPackagesNeedingCpeGeneration(_, _)
GetPackagesNeedingCpeGeneration(file, packages) ==
    IF packages = <<>> THEN <<>>
    ELSE LET rest == GetPackagesNeedingCpeGeneration(file, Tail(packages))
         IN  IF GetCachedCpes(file, Head(packages)) = <<>>
             THEN <<Head(packages)>> \o rest
             ELSE rest

\* lines the mapping service answers with (stripped)
MalformedCpe == "cpe:2.3:a::curl"
Prose == "Here are the CPE identifiers:"
Lines == {CurlCpe, OpensslCpe, MalformedCpe, Prose}

\* str.startswith('cpe:')
StartsWithCpe(line) == line \in {CurlCpe, OpensslCpe, MalformedCpe}

\* cpe_matcher.py:465-510: validate_cpe_format
ValidateCpeFormat(cpe_string) == cpe_string \in {CurlCpe, OpensslCpe}

\* cpe_matcher.py:398-410: duplicates removed, first occurrence kept
RECURSIVE UniqueCpes(_, _)
UniqueCpes(lines, seen_cpes) ==
    IF lines = <<>> THEN <<>>
    ELSE IF StartsWithCpe(Head(lines)) /\ Head(lines) \notin seen_cpes
         THEN <<Head(lines)>> \o UniqueCpes(Tail(lines), seen_cpes \cup {Head(lines)})
         ELSE UniqueCpes(Tail(lines), seen_cpes)

\* what the mapping service does with one call: refused by the rate limiter
\* or failed (ok = FALSE), or a text of some lines
Answers == {[ok |-> FALSE, lines |-> <<>>]}
              \cup {[ok |-> TRUE, lines |-> l] : l \in SeqsUpTo(Lines, MaxLines)}

\* machine_processor.py:112-124: ask_for_cpe is called only when some package
\* needs generation; otherwise there is no answer to draw
NoAnswer == [ok |-> FALSE, lines |-> <<>>]
AnswersFor(file, new_packages) ==
    IF GetPackagesNeedingCpeGeneration(file, new_packages) = <<>>
    THEN {NoAnswer}
    ELSE Answers

\* cpe_matcher.py:368-432: ask_for_cpe, its return value as a list of lines
\* (the empty string when the call is refused or fails)
AskForCpe(answer) ==
    IF answer.ok THEN UniqueCpes(answer.lines, {}) ELSE <<>>

\* machine_processor.py:127: the lines of the response that start with cpe:
CpesFromResponse(cpe_response) == SelectSeq(cpe_response, StartsWithCpe)

\* mutant: the packages are paired with an empty response as well
PairCpesAlways(packages_to_process, cpes_from_response) ==
    [k \in Range(packages_to_process) |->
        LET i == CHOOSE j \in 1..Len(packages_to_process) :
                    /\ packages_to_process[j] = k
                    /\ \A m \in 1..Len(packages_to_process) :
                           packages_to_process[m] = k => m <= j
        IN  IF i <= Len(cpes_from_response)
                 /\ ValidateCpeFormat(cpes_from_response[i])
            THEN <<cpes_from_response[i]>>
            ELSE <<>>]

\* machine_processor.py:134-147: the CPE list paired with each package to
\* process (a later occurrence of a package overwrites an earlier one)
PairCpes(packages_to_process, cpes_from_response) ==
    IF cpes_from_response = <<>> THEN EmptyDict
    ELSE [k \in Range(packages_to_process) |->
            LET i == CHOOSE j \in 1..Len(packages_to_process) :
                        /\ packages_to_process[j] = k
                        /\ \A m \in 1..Len(packages_to_process) :
                               packages_to_process[m] = k => m <= j
            IN  IF i <= Len(cpes_from_response)
                     /\ ValidateCpeFormat(cpes_from_response[i])
                THEN <<cpes_from_response[i]>>
                ELSE <<>>]

\* machine_processor.py:111-166: generate_cpes_for_packages; the file it
\* leaves and the dict it returns
GenerateCpesForPackages(file, new_packages, answer) ==
    LET packages_to_process == GetPackagesNeedingCpeGeneration(file, new_packages)
        generated ==
            IF packages_to_process = <<>> THEN EmptyDict
            ELSE PairCpes(packages_to_process, CpesFromResponse(AskForCpe(answer)))
        file1 == IF DOMAIN generated # {} THEN CacheCpes(file, generated) ELSE file
        cached == {k \in Range(new_packages) \ DOMAIN generated :
                      GetCachedCpes(file1, k) # <<>>}
    IN  [file |-> file1,
         packages_cpes |-> [k \in DOMAIN generated \cup cached |->
                              IF k \in DOMAIN generated THEN generated[k]
                              ELSE GetCachedCpes(file1, k)]]

\* arguments of the calls
CpeDicts == Dicts(SeqsUpTo(CPES, MaxList))
PackageLists == DistinctSeqsUpTo(Components, Cardinality(Components)) \ {<<>>}

\* a call of get_cached_cpes
GetCachedCpesCall(pkg) ==
    /\ last_op' = [NoOp EXCEPT !.op = "get_cached_cpes", !.pkg = pkg,
                               !.ret = GetCachedCpes(cpe_cache, pkg)]
    /\ UNCHANGED cpe_cache
    /\ UNCHANGED <<vulnVars, deltaVars, quotaVars>>

\* a call of cache_cpes
CacheCpesCall(d) ==
    /\ cpe_cache' = CacheCpes(cpe_cache, d)
    /\ last_op' = [NoOp EXCEPT !.op = "cache_cpes", !.dict = d]
    /\ UNCHANGED <<vulnVars, deltaVars, quotaVars>>

\* a call of mark_cpe_invalid (made by the vulnerability check on a 404)
MarkCpeInvalidCall(x) ==
    /\ cpe_cache' = MarkCpeInvalid(cpe_cache, x)
    /\ last_op' = [NoOp EXCEPT !.op = "mark_cpe_invalid", !.cpe = x]
    /\ UNCHANGED <<vulnVars, deltaVars, quotaVars>>

\* a call of get_packages_needing_cpe_generation
GetPackagesNeedingCall(pkgs) ==
    /\ last_op' = [NoOp EXCEPT !.op = "get_packages_needing_cpe_generation",
                               !.packages = pkgs,
                               !.ret = GetPackagesNeedingCpeGeneration(cpe_cache, pkgs)]
    /\ UNCHANGED cpe_cache
    /\ UNCHANGED <<vulnVars, deltaVars, quotaVars>>

\* a call of generate_cpes_for_packages; its result is handed to the
\* vulnerability check
GenerateCpesForPackagesCall(pkgs, answer) ==
    LET out == GenerateCpesForPackages(cpe_cache, pkgs, answer)
    IN  /\ cpe_cache' = out.file
        /\ last_op' = [NoOp EXCEPT
                          !.op = "generate_cpes_for_packages",
                          !.packages = pkgs,
                          !.ret_dict = out.packages_cpes,
                          !.asked =
                              GetPackagesNeedingCpeGeneration(cpe_cache, pkgs) # <<>>,
                          !.answer = answer]
        /\ UNCHANGED <<vulnVars, deltaVars, quotaVars>>

(***************************************************************************)
(* The inventory delta detector: pkg_finder.get_new_packages,               *)
(* machine_processor.process_machine_packages and the loop of main          *)
(***************************************************************************)
\* machines of the inventory (type linux)
Machines == {"m1"}

\* package identifiers, in the order the package manager lists them
PackageOrder == <<"a", "b", "c", "d">>
Packages == Range(PackageOrder)
Rank(x) == CHOOSE i \in 1..Len(PackageOrder) : PackageOrder[i] = x

\* the lists get_installed_packages_linux returns: in listing order; an
\* identifier may repeat (two architectures of one package sanitize alike)
Snapshots ==
    {l \in SeqsUpTo(Packages, MaxSnapshot) :
        \A i \in 1..(Len(l) - 1) : Rank(l[i]) <= Rank(l[i + 1])}

\* pkg_finder.py:132-134, 145-156, 162-208: what the collector returns when
\* the SSH connection fails or the package manager is unknown
FailedCollection == <<>>

\* the file installed_packages.json: absent, a JSON array of strings, or
\* malformed: not JSON at all (e.g. truncated), a JSON number, a JSON object {}
NoSnapshot == [state |-> "missing", data |-> <<>>]
OkSnapshot(l) == [state |-> "ok", data |-> l]
InvalidJson == [state |-> "invalid_json", data |-> <<>>]
JsonNumber == [state |-> "json_number", data |-> <<>>]
JsonObject == [state |-> "json_object", data |-> <<>>]
MalformedSnapshots == {InvalidJson, JsonNumber, JsonObject}

\* list(a_set): the elements once each, in an order Python does not specify
ListsOf(S) ==
    {l \in [1..Cardinality(S) -> S] : \A i, j \in DOMAIN l : i # j => l[i] # l[j]}

\* mutant: on a first run nothing is reported as new
GetNewPackagesFirstRunNothing(file, current_installed_packages) ==
    IF file.state = "missing"
    THEN [outcome |-> "returned", returns |-> {<<>>}, removed_packages |-> {},
          file |-> file]
    ELSE IF file.state \in {"invalid_json", "json_number"}
    THEN [outcome |-> "raised", returns |-> {}, removed_packages |-> {},
          file |-> file]
    ELSE LET current_set == Range(current_installed_packages)
             previous_set == Range(file.data)
         IN  [outcome |-> "returned",
              returns |-> ListsOf(current_set \ previous_set),
              removed_packages |-> previous_set \ current_set,
              file |-> file]

\* mutant: every previous package not reported as new is listed as removed
GetNewPackagesRemovedAll(file, current_installed_packages) ==
    IF file.state = "missing"
    THEN [outcome |-> "returned", returns |-> {current_installed_packages},
          removed_packages |-> {}, file |-> file]
    ELSE IF file.state \in {"invalid_json", "json_number"}
    THEN [outcome |-> "raised", returns |-> {}, removed_packages |-> {},
          file |-> file]
    ELSE LET current_set == Range(current_installed_packages)
             previous_set == Range(file.data)
         IN  [outcome |-> "returned",
              returns |-> ListsOf(current_set \ previous_set),
              removed_packages |-> previous_set \ (current_set \ previous_set),
              file |-> file]

\* mutant: the detector saves the current list itself
GetNewPackagesSaves(file, current_installed_packages) ==
    IF file.state = "missing"
    THEN [outcome |-> "returned", returns |-> {current_installed_packages},
          removed_packages |-> {}, file |-> OkSnapshot(current_installed_packages)]
    ELSE IF file.state \in {"invalid_json", "json_number"}
    THEN [outcome |-> "raised", returns |-> {}, removed_packages |-> {},
          file |-> file]
    ELSE LET current_set == Range(current_installed_packages)
             previous_set == Range(file.data)
         IN  [outcome |-> "returned",
              returns |-> ListsOf(current_set \ previous_set),
              removed_packages |-> previous_set \ current_set,
              file |-> OkSnapshot(current_installed_packages)]

\* pkg_finder.py:250-278: get_new_packages. outcome: it returned or raised
\* (json.loads raises JSONDecodeError on text that is not JSON, set() raises
\* TypeError on a number; only FileNotFoundError is caught); returns: the lists
\* it can return; removed_packages: the removals it logs; file: the snapshot
\* file as it leaves it
GetNewPackages(file, current_installed_packages) ==
    IF file.state = "missing"
    THEN [outcome |-> "returned", returns |-> {current_installed_packages},
          removed_packages |-> {}, file |-> file]
    ELSE IF file.state \in {"invalid_json", "json_number"}
    THEN [outcome |-> "raised", returns |-> {}, removed_packages |-> {},
          file |-> file]
    ELSE LET current_set == Range(current_installed_packages)
             previous_set == Range(file.data)
         IN  [outcome |-> "returned",
              returns |-> ListsOf(current_set \ previous_set),
              removed_packages |-> previous_set \ current_set,
              file |-> file]

\* no scan has run yet. before: the snapshot file when the scan began;
\* s1: the list the collector returned to the previous scan of the machine
\* that went through process_machine_packages, if one did; saved: the same
\* for the latest such scan; checked: the packages handed to the
\* vulnerability check with their CPEs; model_name: lscpu gave a CPU model,
\* prev_model_name: the same for the previous scan of the machine;
\* mapping_calls, nvd_calls: the calls the hardware steps of the scan made to
\* the mapping service and to the NVD; looked_up: the hardware CPEs the
\* vulnerability check has looked up so far, which its cache can answer;
\* assigned: the names vulnerabilities_found and machine_vulnerabilities of
\* main are bound, and to what (the findings as the machines and component
\* types they are about); report: what finalize_machine_report was given
NoSaved == [done |-> FALSE, installed_packages |-> <<>>]
NoReport == [finalized |-> FALSE, machine |-> "", vulnerabilities_found |-> FALSE,
             machine_vulnerabilities |-> {}]
NoScan == [pc |-> "idle", machine |-> "m1", outcome |-> "none",
           before |-> NoSnapshot, s1 |-> NoSaved, saved |-> NoSaved,
           installed_packages |-> <<>>, new_packages |-> <<>>,
           removed_packages |-> {}, packages_cpes |-> {}, checked |-> {},
           model_name |-> FALSE, prev_model_name |-> FALSE,
           hardware_cpes |-> {}, mapping_calls |-> 0, nvd_calls |-> 0,
           looked_up |-> {}, assigned |-> FALSE,
           vulnerabilities_found |-> FALSE, machine_vulnerabilities |-> {},
           report |-> NoReport]

\* main.py:244, machine_processor.py:60-68: the packages are collected and
\* get_new_packages is called; an exception it raises ends the program.
\* same_run: the machine is not the first one of the loop, so the names of
\* main are as the iteration before left them
ProcessMachinePackagesBegins(machine, installed_packages, same_run) ==
    /\ scan.pc = "idle"
    /\ LET r == GetNewPackages(installed_packages_json[machine], installed_packages)
           begun == [NoScan EXCEPT !.machine = machine,
                                   !.assigned = same_run /\ scan.assigned,
                                   !.vulnerabilities_found =
                                       same_run /\ scan.vulnerabilities_found,
                                   !.machine_vulnerabilities =
                                       IF same_run THEN scan.machine_vulnerabilities
                                       ELSE {},
                                   !.before = installed_packages_json[machine],
                                   !.s1 = IF scan.machine = machine THEN scan.saved
                                          ELSE NoSaved,
                                   !.prev_model_name = scan.machine = machine
                                                       /\ scan.model_name,
                                   !.looked_up = scan.looked_up,
                                   !.installed_packages = installed_packages,
                                   !.removed_packages = r.removed_packages]
       IN  /\ installed_packages_json' =
                  [installed_packages_json EXCEPT ![machine] = r.file]
           /\ IF r.outcome = "raised"
              THEN scan' = [begun EXCEPT !.outcome = "raised", !.saved = scan.saved]
              ELSE \E new_packages \in r.returns :
                      scan' = [begun EXCEPT !.pc = "update_cache",
                                            !.outcome = "running",
                                            !.saved = scan.saved,
                                            !.new_packages = new_packages]
    /\ UNCHANGED <<vulnVars, cpeVars, quotaVars>>

\* the program is started and comes to the first machine of the inventory
GetNewPackagesCall(machine, installed_packages) ==
    ProcessMachinePackagesBegins(machine, installed_packages, FALSE)

\* main.py:233-244: the loop goes on to the next machine of the inventory
NextMachine(machine, installed_packages) ==
    /\ scan.outcome = "completed"
    /\ machine # scan.machine
    /\ ProcessMachinePackagesBegins(machine, installed_packages, TRUE)

\* mutant: the package cache is updated with the new packages only
UpdatePackageCacheWritesNew(machine) ==
    /\ scan.pc = "update_cache"
    /\ scan.machine = machine
    /\ installed_packages_json' =
          [installed_packages_json EXCEPT ![machine] = OkSnapshot(scan.new_packages)]
    /\ scan' = [scan EXCEPT
                  !.pc = "hardware_info",
                  !.saved = [done |-> TRUE,
                             installed_packages |-> scan.installed_packages]]
    /\ UNCHANGED <<vulnVars, cpeVars, quotaVars>>

\* machine_processor.py:70-82: installed_packages.json is overwritten with
\* the current list and process_machine_packages returns
UpdatePackageCache(machine) ==
    /\ scan.pc = "update_cache"
    /\ scan.machine = machine
    /\ installed_packages_json' =
          [installed_packages_json EXCEPT
              ![machine] = OkSnapshot(scan.installed_packages)]
    /\ scan' = [scan EXCEPT
                  !.pc = "hardware_info",
                  !.saved = [done |-> TRUE,
                             installed_packages |-> scan.installed_packages]]
    /\ UNCHANGED <<vulnVars, cpeVars, quotaVars>>

\* main.py:271: the step after the packages: the hardware if a CPU model is
\* known, the report otherwise
AfterPackages(model_name) == IF model_name THEN "hardware" ELSE "finalize"

\* main.py:248-255, machine_processor.py:196-210: process_machine_hardware
\* returns the hardware information, with a CPU model or without; without
\* new packages main skips generation and check
ProcessMachineHardware(model_name) ==
    /\ scan.pc = "hardware_info"
    /\ scan' = [scan EXCEPT
                  !.model_name = model_name,
                  !.pc = IF scan.new_packages = <<>> THEN AfterPackages(model_name)
                         ELSE "generate"]
    /\ UNCHANGED installed_packages_json
    /\ UNCHANGED <<vulnVars, cpeVars, quotaVars>>

\* main.py:262, machine_processor.py:111-166: generate_cpes_for_packages; the
\* new packages come back with CPEs, or none does (ask_for_cpe returns "" when
\* the rate limiter refuses or the mapping service fails)
GenerateCpes(generated) ==
    /\ scan.pc = "generate"
    /\ scan' = [scan EXCEPT
                  !.pc = "check",
                  !.packages_cpes = IF generated THEN Range(scan.new_packages)
                                    ELSE {}]
    /\ UNCHANGED installed_packages_json
    /\ UNCHANGED <<vulnVars, cpeVars, quotaVars>>

\* the findings check_vulnerabilities returns for a machine
Findings(machine, component_type, found) ==
    IF found THEN {[machine |-> machine, component_type |-> component_type]}
    ELSE {}

\* main.py:266-268: check_vulnerabilities looks up the packages that have
\* CPEs; what it returns is bound to vulnerabilities_found and
\* machine_vulnerabilities
CheckVulnerabilities(found) ==
    /\ scan.pc = "check"
    /\ found => scan.packages_cpes # {}
    /\ scan' = [scan EXCEPT !.pc = AfterPackages(scan.model_name),
                            !.checked = scan.packages_cpes,
                            !.assigned = TRUE,
                            !.vulnerabilities_found = found,
                            !.machine_vulnerabilities =
                                Findings(scan.machine, "package", found)]
    /\ UNCHANGED installed_packages_json
    /\ UNCHANGED <<vulnVars, cpeVars, quotaVars>>

\* the CPEs the mapping service may give for the CPU of a machine
HardwareCpes == {"cpe:2.3:h:intel:xeon", "cpe:2.3:h:intel:xeon_e5"}

\* what ask_for_cpe may come back with: "" without a call (the rate limiter
\* refused), "" or nothing valid after a call, or a valid CPE
HardwareAnswers == {"refused", "failed"} \cup HardwareCpes

\* main.py:273-275, machine_processor.py:236-287: generate_cpes_for_hardware
\* asks the mapping service on every scan; nothing is read from or written
\* to the CPE cache
GenerateCpesForHardware(answer) ==
    /\ scan.pc = "hardware"
    /\ scan' = [scan EXCEPT
                  !.mapping_calls = IF answer = "refused" THEN scan.mapping_calls
                                    ELSE scan.mapping_calls + 1,
                  !.hardware_cpes = {answer} \cap HardwareCpes,
                  !.pc = IF answer \in HardwareCpes THEN "check_hardware"
                         ELSE "finalize"]
    /\ UNCHANGED installed_packages_json
    /\ UNCHANGED <<vulnVars, cpeVars, quotaVars>>

\* main.py:277-285: check_vulnerabilities for the hardware CPEs; a CPE that
\* was looked up before is answered by the vulnerability cache, another one
\* by the NVD. Findings are merged into machine_vulnerabilities and
\* vulnerabilities_found (main.py:282-285), which raises NameError when the
\* names are not bound
CheckHardwareVulnerabilities(hw_vulnerabilities_found) ==
    /\ scan.pc = "check_hardware"
    /\ LET looked == [scan EXCEPT
                        !.nvd_calls = scan.nvd_calls
                                      + Cardinality(scan.hardware_cpes \ scan.looked_up),
                        !.looked_up = scan.looked_up \cup scan.hardware_cpes]
       IN  IF ~hw_vulnerabilities_found
           THEN scan' = [looked EXCEPT !.pc = "finalize"]
           ELSE IF ~scan.assigned
           THEN scan' = [looked EXCEPT !.pc = "idle", !.outcome = "name_error"]
           ELSE scan' = [looked EXCEPT
                           !.pc = "finalize",
                           !.machine_vulnerabilities =
                               scan.machine_vulnerabilities
                               \cup Findings(scan.machine, "hardware", TRUE),
                           !.vulnerabilities_found = TRUE]
    /\ UNCHANGED installed_packages_json
    /\ UNCHANGED <<vulnVars, cpeVars, quotaVars>>

\* main.py:288-290: the report of the machine is finalized with the values
\* of vulnerabilities_found and machine_vulnerabilities; reading them raises
\* NameError when they are not bound
FinalizeMachineReport ==
    /\ scan.pc = "finalize"
    /\ IF ~scan.assigned
       THEN scan' = [scan EXCEPT !.pc = "idle", !.outcome = "name_error"]
       ELSE scan' = [scan EXCEPT
                       !.pc = "idle",
                       !.outcome = "completed",
                       !.report = [finalized |-> TRUE,
                                   machine |-> scan.machine,
                                   vulnerabilities_found |->
                                       scan.vulnerabilities_found,
                                   machine_vulnerabilities |->
                                       scan.machine_vulnerabilities]]
    /\ UNCHANGED installed_packages_json
    /\ UNCHANGED <<vulnVars, cpeVars, quotaVars>>

\* main.py:233-290: the program is stopped while a machine is being scanned
\* (nothing in the loop catches an interrupt or undoes the update)
StopScan ==
    /\ scan.pc # "idle"
    /\ scan' = [scan EXCEPT !.pc = "idle", !.outcome = "stopped"]
    /\ UNCHANGED installed_packages_json
    /\ UNCHANGED <<vulnVars, cpeVars, quotaVars>>

(***************************************************************************)
(* The quota governor: APIRateLimiter and ask_for_cpe of cpe_matcher.py     *)
(***************************************************************************)
\* cpe_matcher.py:62-63: the limits of the free tier
daily_limit == 20
minute_limit == 5

\* seconds in the two sliding windows (cpe_matcher.py:101-102)
DaySeconds == 24 * 3600
MinuteSeconds == 60

\* the instants, in seconds after the first one, at which the clock is read:
\* a minute later to the second, one second past it, three further minutes,
\* a day later to the second and one second past it
Instants == {0, 60, 61, 122, 183, 86400, 86401}

\* cpe_matcher.py:57-65: APIRateLimiter.__init__ (is_paid None)
NewRateLimiter ==
    [is_paid |-> "None", plan_checked |-> FALSE,
     calls_today |-> <<>>, calls_last_minute |-> <<>>, total_calls |-> 0]

\* cpe_matcher.py:104-108: popleft while the oldest timestamp is before cutoff
RECURSIVE PopExpired(_, _)
PopExpired(queue, cutoff) ==
    IF queue # <<>> /\ Head(queue) < cutoff
    THEN PopExpired(Tail(queue), cutoff)
    ELSE queue

\* mutant: the plan is probed and set on every call
CheckPlanAlways(limiter, is_paid) ==
    [limiter EXCEPT !.is_paid = is_paid, !.plan_checked = TRUE]

\* cpe_matcher.py:67-86: check_plan; is_paid is what check_gemini_plan found
CheckPlan(limiter, is_paid) ==
    IF limiter.plan_checked THEN limiter
    ELSE [limiter EXCEPT !.is_paid = is_paid, !.plan_checked = TRUE]

\* what the probe of check_gemini_plan meets: the paid-only model answers,
\* it is refused as not available, or another error (network, invalid key)
ProbeOutcomes == {"success", "not_available", "other_error"}

\* cpe_matcher.py:229-290: check_gemini_plan, the is_paid it reports
CheckGeminiPlan(outcome) == IF outcome = "success" THEN "True" ELSE "False"

\* cpe_matcher.py:69-73: check_plan calls check_gemini_plan unless the plan
\* was checked before; the number of probes it adds
ProbesOf(limiter) == IF limiter.plan_checked THEN 0 ELSE 1

\* cpe_matcher.py:99-108: both queues without their expired timestamps
Cleaned(limiter, t) ==
    [limiter EXCEPT
        !.calls_today = PopExpired(limiter.calls_today, t - DaySeconds),
        !.calls_last_minute = PopExpired(limiter.calls_last_minute, t - MinuteSeconds)]

\* mutant: a request is refused only above the limit
CanMakeRequestAboveLimit(limiter, is_paid, t) ==
    LET checked == CheckPlan(limiter, is_paid)
        cleaned == Cleaned(checked, t)
    IN  IF checked.is_paid = "True"
        THEN [limiter |-> checked, allowed |-> TRUE]
        ELSE [limiter |-> cleaned,
              allowed |-> /\ ~(Len(cleaned.calls_today) > daily_limit)
                          /\ ~(Len(cleaned.calls_last_minute) > minute_limit)]

\* mutant: a timestamp is evicted as soon as it is as old as the horizon
CanMakeRequestEvictsAtHorizon(limiter, is_paid, t) ==
    LET checked == CheckPlan(limiter, is_paid)
        cleaned == Cleaned(checked, t + 1)
    IN  IF checked.is_paid = "True"
        THEN [limiter |-> checked, allowed |-> TRUE]
        ELSE [limiter |-> cleaned,
              allowed |-> /\ ~(Len(cleaned.calls_today) >= daily_limit)
                          /\ ~(Len(cleaned.calls_last_minute) >= minute_limit)]

\* mutant: the queue lengths are compared without evicting anything
CanMakeRequestNoEviction(limiter, is_paid, t) ==
    LET checked == CheckPlan(limiter, is_paid)
    IN  IF checked.is_paid = "True"
        THEN [limiter |-> checked, allowed |-> TRUE]
        ELSE [limiter |-> checked,
              allowed |-> /\ ~(Len(checked.calls_today) >= daily_limit)
                          /\ ~(Len(checked.calls_last_minute) >= minute_limit)]

\* mutant: an allowed request is entered in the queues by the check itself
CanMakeRequestReserves(limiter, is_paid, t) ==
    LET checked == CheckPlan(limiter, is_paid)
        cleaned == Cleaned(checked, t)
        allowed == /\ ~(Len(cleaned.calls_today) >= daily_limit)
                   /\ ~(Len(cleaned.calls_last_minute) >= minute_limit)
    IN  IF checked.is_paid = "True"
        THEN [limiter |-> checked, allowed |-> TRUE]
        ELSE [limiter |-> IF allowed
                          THEN [cleaned EXCEPT
                                  !.calls_today = Append(cleaned.calls_today, t),
                                  !.calls_last_minute =
                                      Append(cleaned.calls_last_minute, t)]
                          ELSE cleaned,
              allowed |-> allowed]

\* mutant: the limits are enforced whatever the plan
CanMakeRequestIgnoresPlan(limiter, is_paid, t) ==
    LET checked == CheckPlan(limiter, is_paid)
        cleaned == Cleaned(checked, t)
    IN  [limiter |-> cleaned,
         allowed |-> /\ ~(Len(cleaned.calls_today) >= daily_limit)
                     /\ ~(Len(cleaned.calls_last_minute) >= minute_limit)]

\* cpe_matcher.py:88-120: can_make_request at time t; the limiter it leaves
\* and its verdict
CanMakeRequest(limiter, is_paid, t) ==
    LET checked == CheckPlan(limiter, is_paid)
        cleaned == Cleaned(checked, t)
    IN  IF checked.is_paid = "True"
        THEN [limiter |-> checked, allowed |-> TRUE]
        ELSE [limiter |-> cleaned,
              allowed |-> /\ ~(Len(cleaned.calls_today) >= daily_limit)
                          /\ ~(Len(cleaned.calls_last_minute) >= minute_limit)]

\* mutant: nothing is recorded on a paid plan
RecordCallSkipsPaid(limiter, t) ==
    IF limiter.is_paid = "True" THEN limiter
    ELSE [limiter EXCEPT !.calls_today = Append(limiter.calls_today, t),
                         !.calls_last_minute = Append(limiter.calls_last_minute, t),
                         !.total_calls = limiter.total_calls + 1]

\* mutant: a call beyond the minute limit is not recorded
RecordCallRefusesAtLimit(limiter, t) ==
    IF Len(limiter.calls_last_minute) >= minute_limit THEN limiter
    ELSE [limiter EXCEPT !.calls_today = Append(limiter.calls_today, t),
                         !.calls_last_minute = Append(limiter.calls_last_minute, t),
                         !.total_calls = limiter.total_calls + 1]

\* cpe_matcher.py:122-130: record_call at time t
RecordCall(limiter, t) ==
    [limiter EXCEPT !.calls_today = Append(limiter.calls_today, t),
                    !.calls_last_minute = Append(limiter.calls_last_minute, t),
                    !.total_calls = limiter.total_calls + 1]

\* cpe_matcher.py:132-158: get_status at time t; the limiter it leaves and
\* the dict it returns (the plan is known when ask_for_cpe calls it)
GetStatus(limiter, t) ==
    LET cleaned == Cleaned(limiter, t)
    IN  [limiter |-> cleaned,
         status |-> [is_paid |-> cleaned.is_paid,
                     total_calls |-> cleaned.total_calls,
                     calls_today |-> Len(cleaned.calls_today),
                     calls_last_minute |-> Len(cleaned.calls_last_minute)]]

\* no ask_for_cpe call has been made. verdict: what the last can_make_request
\* returned; at: when it did; returns: what the last ask_for_cpe returned
\* ("cpes" for the cleaned response); cpe_list_written: it wrote the file
\* cpe_list_<machine>.txt
NoAsk == [pc |-> "idle", verdict |-> "none", at |-> 0, returns |-> "none",
          cpe_list_written |-> FALSE]

\* the callers of ask_for_cpe: the scan loop of main is caller 1; caller 2 is
\* a second scan running in the same process
AskCallers == {1, 2}

\* the clock moves on
Tick(t) ==
    /\ t > now
    /\ now' = t
    /\ UNCHANGED <<rate_limiter, ask, recorded, failed_calls,
                   api_plan_checked_globally, probes>>
    /\ UNCHANGED <<vulnVars, cpeVars, deltaVars>>

\* mutant: a refused request is sent to the mapping service all the same
AskForCpeCheckIgnoresVerdict(c, is_paid) ==
    /\ ask[c].pc = "idle"
    /\ LET r == CanMakeRequest(rate_limiter, is_paid, now)
       IN  /\ rate_limiter' = r.limiter
           /\ ask' = [ask EXCEPT ![c] = [NoAsk EXCEPT
                                            !.pc = "generate_content",
                                            !.verdict = IF r.allowed THEN "allowed"
                                                        ELSE "refused",
                                            !.at = now]]
    /\ probes' = probes + ProbesOf(rate_limiter)
    /\ UNCHANGED <<now, recorded, failed_calls, api_plan_checked_globally>>
    /\ UNCHANGED <<vulnVars, cpeVars, deltaVars>>

\* cpe_matcher.py:372-378: ask_for_cpe asks the limiter; when refused it
\* reads the status and returns ""
AskForCpeCheck(c, is_paid) ==
    /\ ask[c].pc = "idle"
    /\ LET r == CanMakeRequest(rate_limiter, is_paid, now)
       IN  IF r.allowed
           THEN /\ rate_limiter' = r.limiter
                /\ ask' = [ask EXCEPT ![c] = [NoAsk EXCEPT
                                                 !.pc = "generate_content",
                                                 !.verdict = "allowed",
                                                 !.at = now]]
           ELSE /\ rate_limiter' = GetStatus(r.limiter, now).limiter
                /\ ask' = [ask EXCEPT ![c] = [NoAsk EXCEPT
                                                 !.verdict = "refused",
                                                 !.at = now,
                                                 !.returns = ""]]
    /\ probes' = probes + ProbesOf(rate_limiter)
    /\ UNCHANGED <<now, recorded, failed_calls, api_plan_checked_globally>>
    /\ UNCHANGED <<vulnVars, cpeVars, deltaVars>>

\* cpe_matcher.py:380-432: generate_content returns; the call is recorded,
\* the status read, the cleaned response written to the CPE list file and
\* returned
GenerateContentReturns(c) ==
    /\ ask[c].pc = "generate_content"
    /\ rate_limiter.is_paid = "True" => rate_limiter.total_calls < MaxPaidCalls
    /\ rate_limiter' = GetStatus(RecordCall(rate_limiter, now), now).limiter
    /\ recorded' = Append(recorded, now)
    /\ ask' = [ask EXCEPT ![c].pc = "idle", ![c].returns = "cpes",
                          ![c].cpe_list_written = TRUE]
    /\ UNCHANGED <<now, failed_calls, api_plan_checked_globally, probes>>
    /\ UNCHANGED <<vulnVars, cpeVars, deltaVars>>

\* cpe_matcher.py:380-388, 429-432: generate_content raises; ask_for_cpe
\* returns "" and nothing is recorded
GenerateContentRaises(c) ==
    /\ ask[c].pc = "generate_content"
    /\ Len(failed_calls) < MaxFailedCalls
    /\ failed_calls' = Append(failed_calls, now)
    /\ ask' = [ask EXCEPT ![c].pc = "idle", ![c].returns = ""]
    /\ UNCHANGED <<rate_limiter, now, recorded, api_plan_checked_globally, probes>>
    /\ UNCHANGED <<vulnVars, cpeVars, deltaVars>>

\* cpe_matcher.py:435-462: initialize_api_once
InitializeApiOnce(is_paid) ==
    /\ IF api_plan_checked_globally
       THEN UNCHANGED <<rate_limiter, api_plan_checked_globally, probes>>
       ELSE /\ rate_limiter' = CheckPlan(rate_limiter, is_paid)
            /\ probes' = probes + ProbesOf(rate_limiter)
            /\ api_plan_checked_globally' = TRUE
    /\ UNCHANGED <<now, ask, recorded, failed_calls>>
    /\ UNCHANGED <<vulnVars, cpeVars, deltaVars>>

\* cpe_matcher.py:132-158: get_status called on its own
GetStatusCall(is_paid) ==
    /\ rate_limiter' = GetStatus(CheckPlan(rate_limiter, is_paid), now).limiter
    /\ probes' = probes + ProbesOf(rate_limiter)
    /\ UNCHANGED <<now, ask, recorded, failed_calls, api_plan_checked_globally>>
    /\ UNCHANGED <<vulnVars, cpeVars, deltaVars>>

(***************************************************************************)
(* Initial states and specifications                                        *)
(***************************************************************************)
VulnFresh ==
    /\ cpe_index = <<>>
    /\ vulnerabilities = <<>>
    /\ conn = [p \in Connections |-> IdleConn]
    /\ nvd_answer = [c \in CPES |-> <<>>]
    /\ prev_call = NoCall
    /\ last_call = NoCall
    /\ last_sync = NoSync

CpeFresh ==
    /\ cpe_cache = MissingFile
    /\ last_op = NoOp

DeltaFresh ==
    /\ installed_packages_json = [m \in Machines |-> NoSnapshot]
    /\ scan = NoScan

QuotaFresh ==
    /\ rate_limiter = NewRateLimiter
    /\ now = 0
    /\ ask = [c \in AskCallers |-> NoAsk]
    /\ recorded = <<>>
    /\ failed_calls = <<>>
    /\ api_plan_checked_globally = FALSE
    /\ probes = 0

\* a fresh store: no database file, no cache file
InitVuln == VulnFresh /\ CpeFresh /\ DeltaFresh /\ QuotaFresh

NextVuln ==
    \E p \in Callers :
        \/ \E c \in CPES : SelectHit(p, c)
        \/ \E c \in CPES : SelectMiss(p, c)
        \/ QueryNvd(p)
        \/ QueryNvdRaises(p)
        \/ InsertIndex(p)
        \/ InsertRow(p)
        \/ Commit(p)
        \/ Abort(p)

SpecVuln == InitVuln /\ [][NextVuln]_vars

(***************************************************************************)
(* Lookups of one sequential caller with refreshes between them             *)
(***************************************************************************)
\* the lists the lookups of this specification get from the NVD
SyncSearchResults == {L \in SearchResults : Len(L) = 2}

NextSync ==
    \/ \E c \in CPES : SelectHit(1, c)
    \/ \E c \in CPES : SelectMiss(1, c)
    \/ QueryNvd(1) /\ conn'[1].cve_list \in SyncSearchResults
    \/ InsertIndex(1)
    \/ InsertRow(1)
    \/ Commit(1)
    \/ \E updates \in ModifiedResults : SyncModifiedCves(updates)
    \/ SyncModifiedCvesQueryRaises

SpecSync == InitVuln /\ [][NextSync]_vars

(***************************************************************************)
(* Two get_vulnerabilities calls at once for one CPE                        *)
(***************************************************************************)
\* the CPE both calls ask for
RaceCpe == "cpe:2.3:a:curl:curl:7.85.0:*:*:*:*:*:*:*"

NextVulnRace ==
    \E p \in Connections :
        \/ SelectHit(p, RaceCpe)
        \/ SelectMiss(p, RaceCpe)
        \/ QueryNvd(p)
        \/ QueryNvdRaises(p)
        \/ InsertIndex(p)
        \/ InsertRow(p)
        \/ Commit(p)
        \/ Abort(p)

SpecVulnRace == InitVuln /\ [][NextVulnRace]_vars

(***************************************************************************)
(* The CPE translation cache under one sequential caller                    *)
(***************************************************************************)
\* a cache file left by an older version: a bare CPE string for curl, an
\* object without "valid" key and a current object for openssl
LegacyFile ==
    OkFile([k \in Components |->
              IF k = "curl" THEN <<StrEntry(CurlCpe)>>
              ELSE <<DictEntry(CurlCpe, "absent"), DictEntry(OpensslCpe, "true")>>])

InitCpe ==
    /\ VulnFresh
    /\ cpe_cache \in {MissingFile, CorruptFile, LegacyFile}
    /\ last_op = NoOp
    /\ DeltaFresh
    /\ QuotaFresh

\* the operations of pkg_finder.py on the cache file, called in any order
NextCpe ==
    \/ \E pkg \in Components : GetCachedCpesCall(pkg)
    \/ \E d \in CpeDicts : CacheCpesCall(d)
    \/ \E x \in CPES : MarkCpeInvalidCall(x)
    \/ \E pkgs \in PackageLists : GetPackagesNeedingCall(pkgs)

SpecCpe == InitCpe /\ [][NextCpe]_vars

\* the cache as a scan drives it: cache_cpes is called by
\* generate_cpes_for_packages only, mark_cpe_invalid by the vulnerability check
NextGen ==
    \/ \E pkg \in Components : GetCachedCpesCall(pkg)
    \/ \E x \in CPES : MarkCpeInvalidCall(x)
    \/ \E pkgs \in PackageLists : GetPackagesNeedingCall(pkgs)
    \/ \E pkgs \in PackageLists :
          \E a \in AnswersFor(cpe_cache, pkgs) : GenerateCpesForPackagesCall(pkgs, a)

SpecGen == InitCpe /\ [][NextGen]_vars

(***************************************************************************)
(* The scan of a machine, from a snapshot file that is absent or malformed  *)
(***************************************************************************)
InitDelta ==
    /\ VulnFresh
    /\ CpeFresh
    /\ QuotaFresh
    /\ installed_packages_json \in [Machines -> {NoSnapshot} \cup MalformedSnapshots]
    /\ scan = NoScan

NextDelta ==
    \/ \E m \in Machines : \E l \in Snapshots : GetNewPackagesCall(m, l)
    \/ \E m \in Machines : UpdatePackageCache(m)
    \/ ProcessMachineHardware(FALSE)
    \/ \E g \in BOOLEAN : GenerateCpes(g)
    \/ \E f \in BOOLEAN : CheckVulnerabilities(f)
    \/ FinalizeMachineReport
    \/ StopScan

SpecDelta == InitDelta /\ [][NextDelta]_vars

(***************************************************************************)
(* Repeated scans of a machine with its hardware, none of them interrupted  *)
(***************************************************************************)
\* the inventories of the fleet: at most one package
FleetSnapshots == {l \in Snapshots : Len(l) <= 1}

InitFleet == VulnFresh /\ CpeFresh /\ DeltaFresh /\ QuotaFresh

NextFleet ==
    \/ \E m \in Machines : \E l \in FleetSnapshots : GetNewPackagesCall(m, l)
    \/ \E m \in Machines : UpdatePackageCache(m)
    \/ \E h \in BOOLEAN : ProcessMachineHardware(h)
    \/ \E g \in BOOLEAN : GenerateCpes(g)
    \/ \E f \in BOOLEAN : CheckVulnerabilities(f)
    \/ \E a \in HardwareAnswers : GenerateCpesForHardware(a)
    \/ \E f \in BOOLEAN : CheckHardwareVulnerabilities(f)
    \/ FinalizeMachineReport

SpecFleet == InitFleet /\ [][NextFleet]_vars

(***************************************************************************)
(* One run of main over an inventory of two machines                        *)
(***************************************************************************)
\* the sections of the inventory, in the order of config.keys()
MainMachines == <<"m1", "m2">>

\* both machines may have been scanned before with the package a
InitMain ==
    /\ VulnFresh
    /\ CpeFresh
    /\ QuotaFresh
    /\ installed_packages_json \in
           [Range(MainMachines) -> {NoSnapshot, OkSnapshot(<<"a">>)}]
    /\ scan = NoScan

NextMain ==
    \/ \E l \in FleetSnapshots : GetNewPackagesCall(MainMachines[1], l)
    \/ \E l \in FleetSnapshots : NextMachine(MainMachines[2], l)
    \/ \E m \in Range(MainMachines) : UpdatePackageCache(m)
    \/ \E h \in BOOLEAN : ProcessMachineHardware(h)
    \/ \E g \in BOOLEAN : GenerateCpes(g)
    \/ \E f \in BOOLEAN : CheckVulnerabilities(f)
    \/ \E a \in HardwareAnswers : GenerateCpesForHardware(a)
    \/ \E f \in BOOLEAN : CheckHardwareVulnerabilities(f)
    \/ FinalizeMachineReport

SpecMain == InitMain /\ [][NextMain]_vars

(***************************************************************************)
(* The rate limiter under one sequential caller of ask_for_cpe              *)
(***************************************************************************)
InitQuota == VulnFresh /\ CpeFresh /\ DeltaFresh /\ QuotaFresh

NextQuota ==
    \/ \E t \in Instants : Tick(t)
    \/ \E o \in ProbeOutcomes : AskForCpeCheck(1, CheckGeminiPlan(o))
    \/ GenerateContentReturns(1)
    \/ \E o \in ProbeOutcomes : InitializeApiOnce(CheckGeminiPlan(o))
    \/ \E o \in ProbeOutcomes : GetStatusCall(CheckGeminiPlan(o))

SpecQuota == InitQuota /\ [][NextQuota]_vars

(***************************************************************************)
(* The rate limiter under two concurrent callers of ask_for_cpe: nothing in *)
(* cpe_matcher.py locks the limiter between the check and the record        *)
(***************************************************************************)
\* the instants at which the two callers read the clock
RaceInstants == {0, 61}

NextRace ==
    \/ \E t \in RaceInstants : Tick(t)
    \/ \E c \in AskCallers :
          \E o \in ProbeOutcomes : AskForCpeCheck(c, CheckGeminiPlan(o))
    \/ \E c \in AskCallers : GenerateContentReturns(c)
    \/ \E c \in AskCallers : GenerateContentRaises(c)

SpecRace == InitQuota /\ [][NextRace]_vars

(***************************************************************************)
(* ask_for_cpe of one sequential caller with calls that raise               *)
(***************************************************************************)
NextIssue ==
    \/ \E t \in RaceInstants : Tick(t)
    \/ \E o \in ProbeOutcomes : AskForCpeCheck(1, CheckGeminiPlan(o))
    \/ GenerateContentReturns(1)
    \/ GenerateContentRaises(1)

SpecIssue == InitQuota /\ [][NextIssue]_vars

(***************************************************************************)
(* Claims about the vulnerability store (checked under SpecVuln)            *)
(***************************************************************************)
\* number of positions of s holding x
Count(s, x) == Cardinality({i \in 1..Len(s) : s[i] = x})

\* s and t hold the same elements with the same multiplicities
SameElements(s, t) ==
    /\ Len(s) = Len(t)
    /\ \A x \in Range(s) \cup Range(t) : Count(s, x) = Count(t, x)

\* the record and the row the source builds from one CVE object, written out
RecordOfCve(cve) ==
    [cve_id |-> cve.id,
     description |-> IF Len(cve.descriptions) = 0 THEN "No description"
                     ELSE Head(cve.descriptions),
     published_date |-> cve.published]

RowOfCve(c, cve) ==
    [cpe_string |-> c, cve_id |-> cve.id,
     description |-> IF Len(cve.descriptions) = 0 THEN "No description"
                     ELSE Head(cve.descriptions),
     published_date |-> cve.published]

\* prev_call and last_call are two consecutive calls for the same CPE, the
\* first one a miss on a store without an index row that returned
TwoCallsFromFresh ==
    /\ prev_call.outcome = "returned"
    /\ ~prev_call.indexed
    /\ last_call.outcome # "none"
    /\ last_call.cpe = prev_call.cpe

\* C1: from a store with no cpe_index row for c, two consecutive
\* get_vulnerabilities(c) calls, the first succeeding, issue exactly one
\* external query in total and return identical results.
C1_OneQueryIdenticalResults ==
    TwoCallsFromFresh =>
        /\ prev_call.queries + last_call.queries = 1
        /\ last_call.result = prev_call.result

\* The part of C1 the code keeps: one external query in total, and the same
\* records in both results, possibly in another order.
C1_OneQuerySameRecords ==
    TwoCallsFromFresh =>
        /\ prev_call.queries + last_call.queries = 1
        /\ last_call.outcome = "returned"
        /\ SameElements(last_call.result, prev_call.result)

\* two consecutive calls for a CPE with two CVEs have completed
C1_Witness ==
    /\ TwoCallsFromFresh
    /\ Len(prev_call.result) = 2

\* C2: whenever cpe_index holds a row for c when get_vulnerabilities(c) is
\* called, the call issues no external query and returns exactly the stored
\* vulnerabilities rows of c (an empty list when the earlier query found no
\* CVE), served as a cache hit.
C2_HitServesStoredRows ==
    (last_call.outcome # "none" /\ last_call.indexed) =>
        /\ last_call.hit
        /\ last_call.outcome = "returned"
        /\ last_call.queries = 0
        /\ LET rows == RowsOf(vulnerabilities, last_call.cpe)
           IN  SameElements(last_call.result,
                            [i \in 1..Len(rows) |->
                                [cve_id |-> rows[i].cve_id,
                                 description |-> rows[i].description,
                                 published_date |-> rows[i].published_date]])

\* a hit that returns two stored CVEs, followed by a hit on a CPE whose
\* query found nothing
C2_Witness ==
    /\ prev_call.hit /\ Len(prev_call.result) = 2
    /\ last_call.hit /\ last_call.result = <<>>
    /\ last_call.cpe # prev_call.cpe

\* C3: a cache miss for c whose query succeeds with list L adds exactly one
\* cpe_index row for c and one vulnerabilities row (c, cve) per element of
\* L, leaves the rows of every other CPE unchanged and returns one record
\* per element of L.
C3_MissStoresOneRowPerCve ==
    [][\A p \in Callers :
         (conn[p].pc = "insert_rows" /\ conn'[p].pc = "idle"
             /\ last_call'.outcome = "returned") =>
           LET c == conn[p].cpe
               L == conn[p].cve_list
           IN  /\ RowsOf(cpe_index, c) = <<>>
               /\ RowsOf(cpe_index', c) = <<[cpe_string |-> c]>>
               /\ RowsOf(vulnerabilities', c) =
                      RowsOf(vulnerabilities, c)
                         \o [i \in 1..Len(L) |-> RowOfCve(c, L[i])]
               /\ \A d \in CPES \ {c} :
                      /\ RowsOf(cpe_index', d) = RowsOf(cpe_index, d)
                      /\ RowsOf(vulnerabilities', d) = RowsOf(vulnerabilities, d)
               /\ Len(cpe_index') = Len(cpe_index) + 1
               /\ Len(vulnerabilities') = Len(vulnerabilities) + Len(L)
               /\ last_call'.cpe = c
               /\ last_call'.result = [i \in 1..Len(L) |-> RecordOfCve(L[i])]
      ]_vars

\* a miss that stored two CVEs, one of them without description, while the
\* other CPE was already stored
C3_Witness ==
    /\ last_call.outcome = "returned" /\ ~last_call.hit
    /\ last_call.inserted = 2
    /\ \E i \in 1..2 : last_call.result[i].description = "No description"
    /\ Len(cpe_index) = 2
    /\ Len(vulnerabilities) > 2

\* C4: if the external query raises during a cache miss for c, no cpe_index
\* row and no vulnerabilities row for c is persisted, and the next
\* get_vulnerabilities(c) is again a miss that queries the external database.
C4_FailedQueryLeavesNoTrace ==
    /\ (last_call.outcome = "query_raised" /\ ~last_call.indexed) =>
          /\ ~IndexRowFound(last_call.cpe)
          /\ RowsOf(vulnerabilities, last_call.cpe) = <<>>
    /\ (prev_call.outcome = "query_raised" /\ ~prev_call.indexed
           /\ last_call.cpe = prev_call.cpe) =>
          /\ ~last_call.hit
          /\ last_call.queries = 1

\* a query for c raised and the next call for c queried again and returned
C4_Witness ==
    /\ prev_call.outcome = "query_raised"
    /\ last_call.cpe = prev_call.cpe
    /\ last_call.outcome = "returned"
    /\ last_call.queries = 1
    /\ Len(last_call.result) = 1

\* C5: in every committed state of the store, also after a failure inside
\* the miss path, a CPE either has no index row and no vulnerabilities row,
\* or has exactly one index row and exactly the rows of the CVEs its query
\* returned: index insert and record inserts commit together or not at all.
C5_IndexAndRowsCommitTogether ==
    \A c \in CPES :
        IF RowsOf(cpe_index, c) = <<>>
        THEN RowsOf(vulnerabilities, c) = <<>>
        ELSE /\ RowsOf(cpe_index, c) = <<[cpe_string |-> c]>>
             /\ RowsOf(vulnerabilities, c) =
                    [i \in 1..Len(nvd_answer[c]) |-> RowOfCve(c, nvd_answer[c][i])]

\* the call failed between the two record inserts of a two-CVE answer
C5_Witness ==
    /\ last_call.outcome = "aborted"
    /\ last_call.inserted = 1
    /\ Len(nvd_answer[last_call.cpe]) = 2
    /\ ~IndexRowFound(last_call.cpe)

(***************************************************************************)
(* Claims about the CPE translation cache (checked under SpecCpe, SpecGen)  *)
(***************************************************************************)
\* the entries the file holds for a component, and whether it holds any
EntryOf(file, k) ==
    IF file.state = "ok" /\ k \in DOMAIN file.data
    THEN [present |-> TRUE, entries |-> file.data[k]]
    ELSE [present |-> FALSE, entries |-> <<>>]

\* the CPE strings appearing in a component's entry
CpeStringsOf(file, k) ==
    {EntryOf(file, k).entries[i].cpe : i \in 1..Len(EntryOf(file, k).entries)}

\* x is returned by get_cached_cpes for some component
ServedAsValid(file, x) ==
    \E k \in Components : x \in Range(GetCachedCpes(file, k))

\* some entry of the file records x as invalid: mark_cpe_invalid(x) has run
\* (no other operation writes valid = false)
RecordedInvalid(file, x) ==
    \E k \in Components : \E i \in 1..Len(EntryOf(file, k).entries) :
        EntryOf(file, k).entries[i] = [kind |-> "dict", cpe |-> x, valid |-> "false"]

\* C6: once mark_cpe_invalid(x) has recorded x as invalid, so that no
\* component serves x any more, no later get_cached_cpes,
\* get_packages_needing_cpe_generation, generate_cpes_for_packages or
\* cache_cpes makes x valid again or hands x to the vulnerability check.
C6_InvalidatedNeverRetried ==
    [][\A x \in CPES :
         (RecordedInvalid(cpe_cache, x) /\ ~ServedAsValid(cpe_cache, x)) =>
            /\ ~ServedAsValid(cpe_cache', x)
            /\ last_op'.op = "generate_cpes_for_packages" =>
                  \A k \in DOMAIN last_op'.ret_dict :
                      x \notin Range(last_op'.ret_dict[k])
      ]_vars

\* C7: after mark_cpe_invalid(x), get_cached_cpes returns x for no
\* component, whichever component stored x and whether the entry is a
\* {cpe, valid} object or a legacy bare string.
C7_InvalidationIsGlobal ==
    last_op.op = "mark_cpe_invalid" => ~ServedAsValid(cpe_cache, last_op.cpe)

\* The part of C7 the code keeps: after mark_cpe_invalid(x) every object
\* entry with CPE x, of every component, is marked valid = false.
C7_ObjectEntriesInvalidated ==
    last_op.op = "mark_cpe_invalid" =>
        \A k \in Components : \A i \in 1..Len(EntryOf(cpe_cache, k).entries) :
            LET e == EntryOf(cpe_cache, k).entries[i]
            IN  (e.kind = "dict" /\ e.cpe = last_op.cpe) => e.valid = "false"

\* C8 as claimed: over cache_cpes and mark_cpe_invalid operations a CPE
\* string that appears in a component's entry is never removed from it.
C8_NeverRemoved ==
    [][\A k \in Components :
         CpeStringsOf(cpe_cache, k) \subseteq CpeStringsOf(cpe_cache', k)]_vars

\* C8 as amended: a CPE string that appears in a component's entry is
\* removed from it only by a cache_cpes call whose argument names that
\* component; mark_cpe_invalid, and cache_cpes called for other components,
\* never remove a CPE string.
C8_RemovedOnlyByReplacement ==
    [][\A k \in Components :
         \/ CpeStringsOf(cpe_cache, k) \subseteq CpeStringsOf(cpe_cache', k)
         \/ (last_op'.op = "cache_cpes" /\ k \in DOMAIN last_op'.dict)]_vars

\* cache_cpes for openssl alone has run while curl's entry keeps a CPE
\* string that mark_cpe_invalid flagged
C8_Witness ==
    /\ last_op.op = "cache_cpes"
    /\ DOMAIN last_op.dict = {"openssl"}
    /\ \E x \in CPES :
          DictEntry(x, "false") \in Range(EntryOf(cpe_cache, "curl").entries)

\* C9: cache_cpes(d) replaces the whole entry of every component of d by
\* exactly the CPEs of its list, each valid = true, and leaves every other
\* component's entry as it was; afterwards get_cached_cpes(component)
\* returns the list and, when the list is not empty,
\* get_packages_needing_cpe_generation([component]) returns [].
C9_CacheCpesReplaces ==
    [][last_op'.op = "cache_cpes" =>
         LET d == last_op'.dict
         IN  /\ \A k \in DOMAIN d :
                   /\ EntryOf(cpe_cache', k) =
                         [present |-> TRUE,
                          entries |-> [i \in 1..Len(d[k]) |->
                                         [kind |-> "dict", cpe |-> d[k][i],
                                          valid |-> "true"]]]
                   /\ GetCachedCpes(cpe_cache', k) = d[k]
                   /\ d[k] # <<>> =>
                         GetPackagesNeedingCpeGeneration(cpe_cache', <<k>>) = <<>>
             /\ \A k \in Components \ DOMAIN d :
                   EntryOf(cpe_cache', k) = EntryOf(cpe_cache, k)
      ]_vars

\* cache_cpes({curl: two CPEs}) has run on a file in which openssl holds an
\* entry flagged invalid
C9_Witness ==
    /\ last_op.op = "cache_cpes"
    /\ DOMAIN last_op.dict = {"curl"}
    /\ Len(last_op.dict["curl"]) = 2
    /\ Len(EntryOf(cpe_cache, "curl").entries) = 2
    /\ \E x \in CPES :
          DictEntry(x, "false") \in Range(EntryOf(cpe_cache, "openssl").entries)

\* the CPE strings of the entries of k not marked invalid, in stored order
StoredValid(file, k) ==
    LET kept == SelectSeq(EntryOf(file, k).entries,
                          LAMBDA e : ~(e.kind = "dict" /\ e.valid = "false"))
    IN  [i \in 1..Len(kept) |-> kept[i].cpe]

\* C10: get_cached_cpes(component) returns exactly the CPE strings of the
\* component's entries that are marked valid, in stored order, and the empty
\* list when the cache file is missing, the component has no entry or every
\* entry is marked invalid.
C10_ReturnsValidInOrder ==
    last_op.op = "get_cached_cpes" =>
        /\ last_op.ret = StoredValid(cpe_cache, last_op.pkg)
        /\ ( \/ cpe_cache.state = "missing"
             \/ ~EntryOf(cpe_cache, last_op.pkg).present
             \/ \A e \in Range(EntryOf(cpe_cache, last_op.pkg).entries) :
                   e.kind = "dict" /\ e.valid = "false" )
            => last_op.ret = <<>>

\* get_cached_cpes has returned the second of two stored entries, the first
\* one being marked invalid
C10_Witness ==
    /\ last_op.op = "get_cached_cpes"
    /\ Len(EntryOf(cpe_cache, last_op.pkg).entries) = 2
    /\ EntryOf(cpe_cache, last_op.pkg).entries[1].valid = "false"
    /\ last_op.ret = <<EntryOf(cpe_cache, last_op.pkg).entries[2].cpe>>

\* C11: get_packages_needing_cpe_generation(components) returns exactly the
\* elements of its input for which get_cached_cpes is empty, in input order;
\* a component with at least one valid cached CPE is never returned.
C11_ReturnsUncachedInOrder ==
    last_op.op = "get_packages_needing_cpe_generation" =>
        /\ last_op.ret = SelectSeq(last_op.packages,
                                   LAMBDA p : StoredValid(cpe_cache, p) = <<>>)
        /\ \A p \in Range(last_op.ret) : GetCachedCpes(cpe_cache, p) = <<>>
        /\ \A p \in Range(last_op.packages) :
              StoredValid(cpe_cache, p) # <<>> => p \notin Range(last_op.ret)

\* a batch of two components was filtered: the first has a valid cached CPE,
\* the second holds only an entry marked invalid and is the one returned
C11_Witness ==
    /\ last_op.op = "get_packages_needing_cpe_generation"
    /\ Len(last_op.packages) = 2
    /\ StoredValid(cpe_cache, last_op.packages[1]) # <<>>
    /\ EntryOf(cpe_cache, last_op.packages[2]).entries # <<>>
    /\ last_op.ret = <<last_op.packages[2]>>

\* C12: once cache_cpes(d) has run, running cache_cpes(d) again leaves the
\* persisted cache, and the get_cached_cpes result of every component of d,
\* as the first call left them.
C12_CacheCpesIdempotent ==
    last_op.op = "cache_cpes" =>
        /\ CacheCpes(cpe_cache, last_op.dict) = cpe_cache
        /\ \A k \in DOMAIN last_op.dict :
              GetCachedCpes(CacheCpes(cpe_cache, last_op.dict), k)
                 = GetCachedCpes(cpe_cache, k)

\* cache_cpes has stored a two-CPE list for curl over the legacy entry while
\* openssl keeps its two older entries
C12_Witness ==
    /\ last_op.op = "cache_cpes"
    /\ DOMAIN last_op.dict = {"curl"}
    /\ Len(last_op.dict["curl"]) = 2
    /\ GetCachedCpes(cpe_cache, "curl") = last_op.dict["curl"]
    /\ EntryOf(cpe_cache, "openssl").entries
          = <<DictEntry(CurlCpe, "absent"), DictEntry(OpensslCpe, "true")>>

\* C13: get_cached_cpes returns the CPE of every legacy bare-string entry and
\* of every object lacking the valid key of the component, as it does for an
\* object with valid = true, and returns a list (no failure).
C13_LegacyEntriesReadAsValid ==
    last_op.op = "get_cached_cpes" =>
        LET entries == EntryOf(cpe_cache, last_op.pkg).entries
        IN  /\ \A i \in 1..Len(entries) :
                  (entries[i].kind = "str" \/ entries[i].valid = "absent")
                      => entries[i].cpe \in Range(last_op.ret)
            /\ last_op.ret \in Seq(CPES)
            /\ Len(last_op.ret) <= Len(entries)

\* get_cached_cpes(openssl) has returned the CPE of an object without valid
\* key while curl still holds a bare string that is served as well
C13_Witness ==
    /\ last_op.op = "get_cached_cpes"
    /\ last_op.pkg = "openssl"
    /\ DictEntry(CurlCpe, "absent") \in Range(EntryOf(cpe_cache, "openssl").entries)
    /\ CurlCpe \in Range(last_op.ret)
    /\ StrEntry(CurlCpe) \in Range(EntryOf(cpe_cache, "curl").entries)
    /\ GetCachedCpes(cpe_cache, "curl") = <<CurlCpe>>

(***************************************************************************)
(* Claims about the inventory delta detector (checked under SpecDelta)      *)
(***************************************************************************)
\* get_new_packages has returned to the scan
ScanReturned ==
    scan.outcome \in {"running", "stopped", "completed", "name_error"}

\* C14: when no snapshot has been persisted for the machine,
\* get_new_packages returns the entire current snapshot as new and reports
\* no removed item.
C14_FirstRunAllNew ==
    (ScanReturned /\ scan.before.state = "missing") =>
        /\ scan.new_packages = scan.installed_packages
        /\ scan.removed_packages = {}

\* get_new_packages has returned on a machine without snapshot file whose
\* collector listed three packages
C14_Witness ==
    /\ scan.pc = "update_cache"
    /\ scan.before = NoSnapshot
    /\ Len(scan.installed_packages) = 3
    /\ scan.new_packages = scan.installed_packages

\* C15: when the previous scan of the machine went through
\* process_machine_packages with snapshot S1 and this scan has snapshot S2,
\* the new items are exactly S2 minus S1 and the removed items exactly
\* S1 minus S2, as sets of exact strings.
C15_ConsecutiveScansDelta ==
    (ScanReturned /\ scan.s1.done) =>
        LET S1 == Range(scan.s1.installed_packages)
            S2 == Range(scan.installed_packages)
        IN  /\ Range(scan.new_packages) = S2 \ S1
            /\ Len(scan.new_packages) = Cardinality(S2 \ S1)
            /\ scan.removed_packages = S1 \ S2

\* the scenario of the specification: {a,b,c} then {b,c,d} gives new = {d},
\* removed = {a}
C15_Witness ==
    /\ ScanReturned
    /\ scan.s1 = [done |-> TRUE, installed_packages |-> <<"a", "b", "c">>]
    /\ scan.installed_packages = <<"b", "c", "d">>
    /\ scan.new_packages = <<"d">>
    /\ scan.removed_packages = {"a"}

\* C16: the delta is antisymmetric: the new items computed from previous A
\* to current B are the removed items computed from previous B to current A,
\* and the removed items of A to B are the new items of B to A.
C16_DeltaAntisymmetric ==
    (ScanReturned /\ scan.before.state = "ok") =>
        LET A == scan.before.data
            B == scan.installed_packages
            back == GetNewPackages(OkSnapshot(B), A)
        IN  /\ back.outcome = "returned"
            /\ back.removed_packages = Range(scan.new_packages)
            /\ \A l \in back.returns : Range(l) = scan.removed_packages

\* a delta with both a new and a removed item, and an unchanged one
C16_Witness ==
    /\ ScanReturned
    /\ scan.before.state = "ok"
    /\ scan.new_packages # <<>>
    /\ scan.removed_packages # {}
    /\ Range(scan.before.data) \cap Range(scan.installed_packages) # {}

\* C17: get_new_packages never writes the persisted snapshot: when it has
\* returned or raised, installed_packages.json of the machine is what it was
\* before the call.
C17_DetectorNeverWrites ==
    (scan.pc = "update_cache" \/ scan.outcome = "raised") =>
        installed_packages_json[scan.machine] = scan.before

\* get_new_packages has returned new packages against a saved snapshot that
\* differs from the current list
C17_Witness ==
    /\ scan.pc = "update_cache"
    /\ scan.before.state = "ok"
    /\ scan.new_packages # <<>>
    /\ scan.before.data # scan.installed_packages
    /\ installed_packages_json[scan.machine] = scan.before

\* C18: if a scan stops, or ends without its new items having been handed
\* to the vulnerability check, the persisted snapshot is still the previous
\* one and the next scan reports the same items as new.
C18_SnapshotKeptUntilProcessed ==
    (scan.pc = "idle" /\ scan.outcome \in {"stopped", "completed"}
        /\ scan.new_packages # <<>> /\ scan.checked = {}) =>
        /\ installed_packages_json[scan.machine] = scan.before
        /\ LET next == GetNewPackages(installed_packages_json[scan.machine],
                                      scan.installed_packages)
           IN  \A l \in next.returns : Range(l) = Range(scan.new_packages)

\* C19: if the persisted snapshot is malformed, get_new_packages does not
\* fail and returns the entire current snapshot as new.
C19_MalformedDegradesToFirstRun ==
    (scan.outcome # "none" /\ scan.before \in MalformedSnapshots) =>
        /\ scan.outcome # "raised"
        /\ Range(scan.new_packages) = Range(scan.installed_packages)

(***************************************************************************)
(* Claims about the quota governor (checked under SpecQuota)                *)
(***************************************************************************)
\* number of recorded calls with a timestamp not before t
CallsSince(t) == Cardinality({i \in DOMAIN recorded : recorded[i] >= t})

\* C20: with the single sequential caller ask_for_cpe on the free tier, at
\* most minute_limit recorded calls lie in the last 60 seconds and at most
\* daily_limit in the last 24 hours, in every reachable state.
C20_RecordedCallsWithinLimits ==
    rate_limiter.is_paid = "False" =>
        /\ CallsSince(now - MinuteSeconds) <= 5
        /\ CallsSince(now - DaySeconds) <= 20

\* the free tier has used up both budgets and a request was refused
C20_Witness ==
    /\ rate_limiter.is_paid = "False"
    /\ CallsSince(now - MinuteSeconds) = 5
    /\ CallsSince(now - DaySeconds) = 20
    /\ ask[1].verdict = "refused"

\* the slots left in the minute window
MinuteSlotsLeft == minute_limit - CallsSince(now - MinuteSeconds)

\* C21: under any interleaving of two concurrent ask_for_cpe callers on the
\* free tier, the two never both hold a passed can_make_request when only one
\* slot remains, and the recorded calls within 60 seconds never exceed
\* minute_limit nor those within 24 hours daily_limit.
C21_ConcurrentCallersWithinLimits ==
    rate_limiter.is_paid = "False" =>
        /\ (\A c \in AskCallers : ask[c].pc = "generate_content")
              => MinuteSlotsLeft >= 2
        /\ CallsSince(now - MinuteSeconds) <= minute_limit
        /\ CallsSince(now - DaySeconds) <= daily_limit

\* the last can_make_request of caller 1 has returned and nothing has been
\* recorded since: its verdict was given at ask[1].at on the calls in recorded
JustChecked == ask[1].verdict = "refused" \/ ask[1].pc = "generate_content"
Verdict == IF ask[1].pc = "generate_content" THEN "allowed" ELSE ask[1].verdict

\* number of recorded calls not older than horizon seconds at time t
CountIn(t, horizon) == Cardinality({i \in DOMAIN recorded : recorded[i] >= t - horizon})

\* the first of the five latest recorded calls
FifthLast == recorded[Len(recorded) - 4]

\* the timestamps of a queue that are not before cutoff
Unexpired(queue, cutoff) == SelectSeq(queue, LAMBDA ts : ts >= cutoff)

\* steps of caller 1: can_make_request returned a verdict; a call was recorded
CheckStep == ask[1].pc = "idle" /\ ask'[1] # ask[1]
RecordStep == recorded' # recorded

\* C22 as claimed: on the free tier, after 5 recorded calls can_make_request
\* returns false at every time before 60 seconds have elapsed since the first
\* of them and true once 60 seconds have elapsed (daily limit not reached).
C22_RefusedUntilSixtySeconds ==
    (rate_limiter.is_paid = "False" /\ JustChecked /\ Len(recorded) >= 5) =>
        /\ ask[1].at - FifthLast < 60 => Verdict = "refused"
        /\ (ask[1].at - FifthLast >= 60 /\ CountIn(ask[1].at, DaySeconds) < 20)
              => Verdict = "allowed"

\* C22 as amended: can_make_request returns false at every time up to and
\* including 60 seconds after the first of the 5 calls (a timestamp exactly
\* 60 seconds old still counts) and true once more than 60 seconds have
\* elapsed (daily limit not reached).
C22_RefusedThroughSixtySeconds ==
    (rate_limiter.is_paid = "False" /\ JustChecked /\ Len(recorded) >= 5) =>
        /\ ask[1].at - FifthLast <= 60 => Verdict = "refused"
        /\ (ask[1].at - FifthLast > 60 /\ CountIn(ask[1].at, DaySeconds) < 20)
              => Verdict = "allowed"

\* can_make_request was refused exactly 60 seconds after five calls recorded
\* at the same time
C22_Witness ==
    /\ rate_limiter.is_paid = "False"
    /\ Len(recorded) = 5
    /\ recorded[1] = recorded[5]
    /\ ask[1].verdict = "refused"
    /\ ask[1].at = recorded[1] + 60

\* C23: on the free tier can_make_request at time t returns true if and only
\* if fewer than daily_limit recorded timestamps lie within the last 24 hours
\* and fewer than minute_limit within the last 60 seconds; the queues hold no
\* timestamp older than their horizon once it has returned.
C23_AllowedIffBelowBothLimits ==
    (rate_limiter.is_paid = "False" /\ JustChecked) =>
        /\ Verdict = "allowed" <=>
              (CountIn(ask[1].at, DaySeconds) < 20 /\ CountIn(ask[1].at, 60) < 5)
        /\ \A i \in DOMAIN rate_limiter.calls_today :
              rate_limiter.calls_today[i] >= ask[1].at - DaySeconds
        /\ \A i \in DOMAIN rate_limiter.calls_last_minute :
              rate_limiter.calls_last_minute[i] >= ask[1].at - 60

\* a request was refused by the daily limit alone: 20 calls within the day,
\* none within the minute
C23_Witness ==
    /\ rate_limiter.is_paid = "False"
    /\ ask[1].verdict = "refused"
    /\ CountIn(ask[1].at, DaySeconds) = 20
    /\ CountIn(ask[1].at, 60) = 0
    /\ rate_limiter.calls_last_minute = <<>>

\* C24 as claimed: can_make_request is a pure read; a call that returns true
\* on a governor whose tier is known leaves every field as it was.
C24_CanMakeRequestPureRead ==
    [][(ask[1].pc = "idle" /\ ask'[1].pc = "generate_content"
          /\ rate_limiter.plan_checked) => rate_limiter' = rate_limiter]_vars

\* C24 as amended: can_make_request adds no timestamp and changes neither
\* total_calls nor a tier already detected; on the free tier it removes the
\* expired timestamps from both queues and nothing else, so a repeated call
\* at the same time gives the same answer and leaves the governor as the
\* first call left it.
C24_CanMakeRequestOnlyEvicts ==
    [][CheckStep =>
         /\ rate_limiter'.total_calls = rate_limiter.total_calls
         /\ rate_limiter.plan_checked =>
               rate_limiter'.is_paid = rate_limiter.is_paid
         /\ rate_limiter'.is_paid = "False" =>
               /\ rate_limiter'.calls_today =
                     Unexpired(rate_limiter.calls_today, now - DaySeconds)
               /\ rate_limiter'.calls_last_minute =
                     Unexpired(rate_limiter.calls_last_minute, now - 60)
         /\ LET again == CanMakeRequest(rate_limiter', rate_limiter'.is_paid, now)
            IN  /\ again.limiter = rate_limiter'
                /\ again.allowed <=> ask'[1].pc = "generate_content"
      ]_vars

\* a request was allowed 61 seconds after five calls: the check emptied the
\* minute queue and kept the five timestamps of the day queue
C24_Witness ==
    /\ rate_limiter.is_paid = "False"
    /\ ask[1].pc = "generate_content"
    /\ ask[1].at = 61
    /\ recorded = <<0, 0, 0, 0, 0>>
    /\ rate_limiter.calls_last_minute = <<>>
    /\ rate_limiter.calls_today = recorded

\* C25 as claimed: under a detected paid tier can_make_request returns true
\* and record_call leaves both timestamp queues unchanged.
C25_PaidTierSkipsCheckAndRecord ==
    [][rate_limiter.is_paid = "True" =>
         /\ CheckStep => ask'[1].pc = "generate_content"
         /\ RecordStep =>
               /\ rate_limiter'.calls_today = rate_limiter.calls_today
               /\ rate_limiter'.calls_last_minute = rate_limiter.calls_last_minute
      ]_vars

\* C25 as amended: under a detected paid tier can_make_request returns true
\* and leaves the governor untouched (no eviction); record_call still appends
\* the timestamp to both queues and counts the call.
C25_PaidTierSkipsCheckOnly ==
    [][rate_limiter.is_paid = "True" =>
         /\ CheckStep =>
               /\ ask'[1].pc = "generate_content"
               /\ rate_limiter' = rate_limiter
         /\ RecordStep =>
               /\ rate_limiter'.calls_today # <<>>
               /\ rate_limiter'.calls_today[Len(rate_limiter'.calls_today)] = now
               /\ rate_limiter'.calls_last_minute # <<>>
               /\ rate_limiter'.calls_last_minute[
                      Len(rate_limiter'.calls_last_minute)] = now
               /\ rate_limiter'.total_calls = rate_limiter.total_calls + 1
      ]_vars

\* on a paid plan a request was allowed at 61 s while the minute queue still
\* holds the timestamp 0 recorded before: the check evicted nothing
C25_Witness ==
    /\ rate_limiter.is_paid = "True"
    /\ ask[1].pc = "generate_content"
    /\ ask[1].at = 61
    /\ now = 61
    /\ rate_limiter.calls_last_minute = <<0>>
    /\ recorded = <<0>>

\* C26: under a detected paid tier can_make_request returns true in every
\* reachable state, whatever the number of recorded calls and the clock.
C26_PaidTierAlwaysAllowed ==
    rate_limiter.is_paid = "True" =>
        /\ ask[1].verdict # "refused"
        /\ CanMakeRequest(rate_limiter, "True", now).allowed

\* on a paid plan a request was allowed although six calls were recorded
\* within the same second
C26_Witness ==
    /\ rate_limiter.is_paid = "True"
    /\ ask[1].pc = "generate_content"
    /\ Len(recorded) = 6
    /\ recorded[1] = now
    /\ Len(rate_limiter.calls_last_minute) = 6

\* C27: record_call appends the current timestamp to both queues whatever
\* their length: each call grows both by exactly one entry and counts the
\* call; after the status read that follows in ask_for_cpe both queues end
\* with that timestamp, behind their unexpired older entries.
C27_RecordCallAppendsUnconditionally ==
    [][RecordStep =>
         LET after == RecordCall(rate_limiter, now)
         IN  /\ after.calls_today = Append(rate_limiter.calls_today, now)
             /\ after.calls_last_minute = Append(rate_limiter.calls_last_minute, now)
             /\ rate_limiter'.total_calls = rate_limiter.total_calls + 1
             /\ rate_limiter'.calls_today =
                   Append(Unexpired(rate_limiter.calls_today, now - DaySeconds), now)
             /\ rate_limiter'.calls_last_minute =
                   Append(Unexpired(rate_limiter.calls_last_minute, now - 60), now)
             /\ recorded' = Append(recorded, now)
      ]_vars

\* a sixth call was recorded within the same second as five others
C27_Witness ==
    /\ ask[1].pc = "idle"
    /\ rate_limiter.total_calls = 6
    /\ rate_limiter.calls_last_minute = <<now, now, now, now, now, now>>
    /\ rate_limiter.calls_today = rate_limiter.calls_last_minute

\* C28: over any sequence of initialize_api_once, can_make_request,
\* get_status and ask_for_cpe calls the probe of check_gemini_plan runs at
\* most once, and once it has run the tier never changes, whether the probe
\* succeeded or ended in an error.
C28_ProbeOnceTierFixed ==
    /\ [](probes <= 1)
    /\ [][rate_limiter.plan_checked =>
            /\ rate_limiter'.plan_checked
            /\ rate_limiter'.is_paid = rate_limiter.is_paid
            /\ probes' = probes]_vars

\* the probe ended in an error (free tier assumed), and initialize_api_once
\* and recorded requests followed it
C28_Witness ==
    /\ probes = 1
    /\ rate_limiter.is_paid = "False"
    /\ api_plan_checked_globally
    /\ rate_limiter.total_calls >= 2
    /\ ask[1].verdict = "refused"

\* the scan follows a scan of the same machine that saved the same inventory
\* and met the same hardware (under SpecFleet that scan ran to its end)
UnchangedFleet ==
    /\ scan.outcome \in {"running", "completed"}
    /\ scan.pc \notin {"update_cache", "hardware_info"}
    /\ scan.s1.done
    /\ scan.s1.installed_packages = scan.installed_packages
    /\ scan.prev_model_name = scan.model_name

\* C29 as claimed: a second scan of an unchanged fleet never reaches the
\* generation or the check of package CPEs and issues no call to the CPE
\* mapping service and none to the NVD.
C29_SecondScanIssuesNoCall ==
    UnchangedFleet =>
        /\ scan.pc \notin {"generate", "check"}
        /\ scan.mapping_calls = 0
        /\ scan.nvd_calls = 0

\* C30 as claimed: while cpe_cache.json cannot be parsed, get_cached_cpes,
\* cache_cpes and mark_cpe_invalid return without raising and leave the file
\* as it is.
C30_UnreadableCacheLeftUnchanged ==
    [][cpe_cache.state = "corrupt" => cpe_cache' = cpe_cache]_vars

\* C33: when can_make_request returns false, ask_for_cpe issues no call to
\* the mapping service, records no call in the governor, writes no CPE list
\* file and returns the empty string.
C33_RefusedRequestDoesNothing ==
    [][(CheckStep /\ ask'[1].verdict = "refused") =>
         /\ ask'[1].pc = "idle"
         /\ ask'[1].returns = ""
         /\ ~ask'[1].cpe_list_written
         /\ recorded' = recorded
         /\ failed_calls' = failed_calls
         /\ rate_limiter'.total_calls = rate_limiter.total_calls
         /\ Len(rate_limiter'.calls_today) <= Len(rate_limiter.calls_today)
         /\ Len(rate_limiter'.calls_last_minute)
               <= Len(rate_limiter.calls_last_minute)
      ]_vars

\* the call after five calls within the same second was refused
C33_Witness ==
    /\ ask[1].verdict = "refused"
    /\ ask[1].returns = ""
    /\ ask[1].at = now
    /\ recorded = <<now, now, now, now, now>>
    /\ rate_limiter.total_calls = 5

\* C34 as claimed: on the free tier with one sequential caller the outbound
\* generate_content calls issued within 60 seconds, those that raised
\* included, never exceed minute_limit. While the clock reads 0 every call
\* made so far was issued within the same second.
C34_OutboundCallsWithinLimits ==
    (rate_limiter.is_paid = "False" /\ now = 0) =>
        Len(recorded) + Len(failed_calls) <= minute_limit

(***************************************************************************)
(* Claims about CPE generation (checked under SpecGen)                      *)
(***************************************************************************)
\* the step is a generate_cpes_for_packages call that asked the mapping
\* service
AskedStep == last_op'.op = "generate_cpes_for_packages" /\ last_op'.asked

\* C35: when ask_for_cpe returns the empty string, generate_cpes_for_packages
\* writes nothing to the CPE cache: the file and every component's entry are
\* as before and the packages that needed generation still need it.
C35_EmptyResponseWritesNothing ==
    [][(AskedStep /\ AskForCpe(last_op'.answer) = <<>>) =>
         /\ cpe_cache' = cpe_cache
         /\ \A k \in Components : EntryOf(cpe_cache', k) = EntryOf(cpe_cache, k)
         /\ GetPackagesNeedingCpeGeneration(cpe_cache', last_op'.packages)
               = GetPackagesNeedingCpeGeneration(cpe_cache, last_op'.packages)
         /\ GetPackagesNeedingCpeGeneration(cpe_cache', last_op'.packages) # <<>>
         /\ last_op'.ret_dict = [k \in {p \in Range(last_op'.packages) :
                                          GetCachedCpes(cpe_cache, p) # <<>>} |->
                                    GetCachedCpes(cpe_cache, k)]
      ]_vars

\* the mapping service was asked for curl and openssl and gave nothing, while
\* the cache holds an invalidated entry for curl and none for openssl
C35_Witness ==
    /\ last_op.op = "generate_cpes_for_packages"
    /\ last_op.asked
    /\ AskForCpe(last_op.answer) = <<>>
    /\ cpe_cache.state = "ok"
    /\ EntryOf(cpe_cache, "curl").entries # <<>>
    /\ GetPackagesNeedingCpeGeneration(cpe_cache, <<"curl", "openssl">>) # <<>>
    /\ Len(last_op.packages) = 2

\* C36 as claimed: when the mapping service answers one valid CPE line per
\* package to process, in order, the CPE cached for the i-th package is the
\* i-th line, also when two lines are the same CPE string.
C36_PairsOneToOne ==
    [][(AskedStep /\ last_op'.answer.ok) =>
         LET to_process ==
                 GetPackagesNeedingCpeGeneration(cpe_cache, last_op'.packages)
             lines == last_op'.answer.lines
         IN  (/\ Len(lines) = Len(to_process)
              /\ \A i \in 1..Len(lines) : ValidateCpeFormat(lines[i]))
             => \A i \in 1..Len(to_process) :
                   /\ GetCachedCpes(cpe_cache', to_process[i]) = <<lines[i]>>
                   /\ last_op'.ret_dict[to_process[i]] = <<lines[i]>>
      ]_vars

\* C39: mark_cpe_invalid only changes a valid flag to false, on object
\* entries whose CPE equals its argument: the components, the length and
\* order of every entry, every CPE string and every entry with another CPE
\* are as before, no flag that was false reads true afterwards, and a second
\* application changes nothing more.
C39_MarkOnlyClearsMatchingFlags ==
    [][last_op'.op = "mark_cpe_invalid" =>
         LET x == last_op'.cpe
             old == cpe_cache.data
             new == cpe_cache'.data
         IN  /\ cpe_cache.state = "corrupt" => cpe_cache' = cpe_cache
             /\ DOMAIN new = DOMAIN old
             /\ \A k \in DOMAIN old :
                   /\ Len(new[k]) = Len(old[k])
                   /\ \A i \in 1..Len(old[k]) :
                         /\ new[k][i].kind = old[k][i].kind
                         /\ new[k][i].cpe = old[k][i].cpe
                         /\ new[k][i] # old[k][i] =>
                               /\ old[k][i].kind = "dict"
                               /\ old[k][i].cpe = x
                               /\ old[k][i].valid # "false"
                               /\ new[k][i].valid = "false"
             /\ MarkCpeInvalid(cpe_cache', x) = cpe_cache'
      ]_vars

\* curl was cached with two valid CPEs and the first one was then invalidated
C39_Witness ==
    /\ last_op.op = "mark_cpe_invalid"
    /\ last_op.cpe = CurlCpe
    /\ cpe_cache.state = "ok"
    /\ "curl" \in DOMAIN cpe_cache.data
    /\ cpe_cache.data["curl"] = <<DictEntry(CurlCpe, "false"),
                                  DictEntry(OpensslCpe, "true")>>

(***************************************************************************)
(* Claims about a failed collection (checked under SpecFleet)               *)
(***************************************************************************)
\* C38 as claimed: when the collection of a scan failed and the collector
\* returned the empty list, the snapshot persisted by the previous scan is
\* still in place when process_machine_packages has returned, and the next
\* scan that collects the
\* same packages as the previous one reports nothing as new.
C38_FailedCollectionKeepsSnapshot ==
    (/\ scan.pc = "hardware_info"
     /\ scan.installed_packages = FailedCollection
     /\ scan.before.state = "ok") =>
        /\ installed_packages_json[scan.machine] = scan.before
        /\ GetNewPackages(installed_packages_json[scan.machine],
                          scan.before.data).returns = {<<>>}

(***************************************************************************)
(* Claims about the loop of main (checked under SpecMain)                   *)
(***************************************************************************)
\* C37 as claimed: finalization never reads an unset result, and the result
\* finalized for a machine holds only findings computed for that machine in
\* its own iteration: none about another machine, and none at all when
\* neither the packages nor the hardware of the machine were checked.
C37_ReportOnlyOwnResults ==
    /\ scan.outcome # "name_error"
    /\ scan.report.finalized =>
          /\ \A v \in scan.report.machine_vulnerabilities :
                v.machine = scan.report.machine
          /\ (scan.checked = {} /\ scan.hardware_cpes = {}) =>
                /\ ~scan.report.vulnerabilities_found
                /\ scan.report.machine_vulnerabilities = {}

(***************************************************************************)
(* Claims about concurrent lookups (checked under SpecVulnRace)             *)
(***************************************************************************)
\* no two elements of the sequence have the same cve_id
DistinctCves(rows) ==
    \A i, j \in 1..Len(rows) : i # j => rows[i].cve_id # rows[j].cve_id

IdsOf(updates) == {updates[i].id : i \in 1..Len(updates)}

\* C32: sync_modified_cves changes nothing but the description of
\* vulnerabilities rows whose cve_id is that of a CVE reported as modified:
\* it adds and removes no row, leaves cpe_index and so the hit or miss status
\* of every CPE as they were, and changes nothing when the query raises.
C32_SyncOnlyRewritesDescriptions ==
    [][last_sync' # last_sync =>
         /\ cpe_index' = cpe_index
         /\ \A c \in CPES : IndexRowFound(c)' <=> IndexRowFound(c)
         /\ Len(vulnerabilities') = Len(vulnerabilities)
         /\ \A i \in 1..Len(vulnerabilities) :
               /\ vulnerabilities'[i].cpe_string = vulnerabilities[i].cpe_string
               /\ vulnerabilities'[i].cve_id = vulnerabilities[i].cve_id
               /\ vulnerabilities'[i].published_date
                     = vulnerabilities[i].published_date
               /\ vulnerabilities'[i].description # vulnerabilities[i].description
                     => vulnerabilities[i].cve_id \in IdsOf(last_sync'.updates)
         /\ last_sync'.outcome = "query_raised"
               => vulnerabilities' = vulnerabilities
      ]_vars

\* a refresh that reported a stored and an unknown CVE rewrote the description
\* of the stored one under both CPEs and left the other rows as they were
C32_Witness ==
    /\ last_sync.outcome = "synced"
    /\ IdsOf(last_sync.updates) = {"CVE-2021-0001", "CVE-2024-0004"}
    /\ Len(vulnerabilities) = 4
    /\ \A i \in 1..4 :
          vulnerabilities[i].description = "heap overflow (revised)"
             <=> vulnerabilities[i].cve_id = "CVE-2021-0001"
    /\ \E i, j \in 1..4 :
          /\ vulnerabilities[i].cpe_string # vulnerabilities[j].cpe_string
          /\ vulnerabilities[i].cve_id = "CVE-2021-0001"
          /\ vulnerabilities[j].cve_id = "CVE-2021-0001"

====
